---- MODULE Spec2Model ----
(***************************************************************************)
(* Model of the automation engine (core/automation/engine.py), the plan    *)
(* executor (core/automation/executor.py) and the on-demand thumbnail      *)
(* cache (core/api/v1/resources.py, core/context.py) of ST-Manager, of the  *)
(* card normalisation and fingerprint (core/utils/data.py, hash.py) and of *)
(* the rule store (core/automation/manager.py).                            *)
(*                                                                         *)
(* Strings are sequences of one-character strings, so that lower(),        *)
(* upper(), strip(), split(',') and the substring test are computed and    *)
(* not assumed.  JSON values are records [t, s, l, n]: t is the type tag,  *)
(* s the characters of a string, l the elements of a list of strings, n    *)
(* the number (0/1 for a boolean).                                         *)
(***************************************************************************)
EXTENDS Integers, Sequences, FiniteSets, TLC

VARIABLES
    card,       \* evaluate: the card_data dict (mutated by evaluate)
    card0,      \* evaluate: card_data as it was passed in
    ruleset,    \* evaluate: the ruleset dict
    epc,        \* evaluate: position ("start","loop","returned","raised")
    ei,         \* evaluate: 1-based index of the next rule of the for loop
    plan,       \* evaluate: plan['actions']
    visited,    \* evaluate: indexes of the rules the for loop has taken up
    matched,    \* evaluate: indexes of the rules with is_rule_match true
    xpc,        \* apply_plan: position
    xin,        \* apply_plan: its arguments [card_id, plan]
    current_id, \* apply_plan: local current_id
    result,     \* apply_plan: the result dict
    calls,      \* apply_plan: the collaborator calls issued so far
    store,      \* card service: the stored card [id, tags, fav]
    store0,     \* card service: the stored card when apply_plan was called
    tpc,        \* serve_thumbnail: position of each request
    treq,       \* serve_thumbnail: the filename each request asks for
    tout,       \* serve_thumbnail: the response of each request
    permits,    \* ctx.thumb_semaphore: free permits
    srcM,       \* file system: mtime of each source image (-1: missing)
    thumb,      \* file system: cache file of each key [st, m, of]
    defaultImg, \* file system: the default placeholder image exists
    doc,        \* data/hash: the document the functions are applied to
    doc2,       \* data/hash: a second document, related to doc
    dres,       \* data/hash: the results computed so far
    dpc,        \* data/hash: position
    cin,        \* _check_condition: its arguments
    cout,       \* _check_condition: its result [done, res]
    files,      \* rule store: the ruleset files [id, data]
    active_ruleset, \* config: active_automation_ruleset
    caseFold,   \* file system: file names are case-insensitive
    mlast,      \* rule store: the last call and what it returned
    mn          \* rule store: number of calls made

evars == <<card, card0, ruleset, epc, ei, plan, visited, matched>>
xvars == <<xpc, xin, current_id, result, calls, store, store0>>
tvars == <<tpc, treq, tout, permits, srcM, thumb, defaultImg>>
dvars == <<doc, doc2, dres, dpc>>
cvars == <<cin, cout>>
mvars == <<files, active_ruleset, caseFold, mlast, mn>>
vars  == <<card, card0, ruleset, epc, ei, plan, visited, matched,
           xpc, xin, current_id, result, calls, store, store0,
           tpc, treq, tout, permits, srcM, thumb, defaultImg,
           doc, doc2, dres, dpc, cin, cout,
           files, active_ruleset, caseFold, mlast, mn>>

----------------------------------------------------------------------------
(* Bounds of the enumerated inputs *)
MaxRules   == 2   \* rules of a ruleset (rule-ordering inputs)
MaxActions == 2   \* actions of a rule
MaxGroups  == 2   \* groups of a rule (group-structure inputs)
MaxConds   == 2   \* conditions of a group
MaxTime    == 1   \* file modification times are 0..MaxTime
NumReq     == 2   \* thumbnail requests with freely chosen filenames

----------------------------------------------------------------------------
(* Strings *)

LowerChar(c) ==
    CASE c = "A" -> "a" [] c = "B" -> "b" [] c = "C" -> "c" [] c = "D" -> "d"
      [] c = "E" -> "e" [] c = "F" -> "f" [] c = "G" -> "g" [] c = "H" -> "h"
      [] c = "I" -> "i" [] c = "J" -> "j" [] c = "K" -> "k" [] c = "L" -> "l"
      [] c = "M" -> "m" [] c = "N" -> "n" [] c = "O" -> "o" [] c = "P" -> "p"
      [] c = "Q" -> "q" [] c = "R" -> "r" [] c = "S" -> "s" [] c = "T" -> "t"
      [] c = "U" -> "u" [] c = "V" -> "v" [] c = "W" -> "w" [] c = "X" -> "x"
      [] c = "Y" -> "y" [] c = "Z" -> "z" [] OTHER -> c

UpperChar(c) ==
    CASE c = "a" -> "A" [] c = "b" -> "B" [] c = "c" -> "C" [] c = "d" -> "D"
      [] c = "e" -> "E" [] c = "f" -> "F" [] c = "g" -> "G" [] c = "h" -> "H"
      [] c = "i" -> "I" [] c = "j" -> "J" [] c = "k" -> "K" [] c = "l" -> "L"
      [] c = "m" -> "M" [] c = "n" -> "N" [] c = "o" -> "O" [] c = "p" -> "P"
      [] c = "q" -> "Q" [] c = "r" -> "R" [] c = "s" -> "S" [] c = "t" -> "T"
      [] c = "u" -> "U" [] c = "v" -> "V" [] c = "w" -> "W" [] c = "x" -> "X"
      [] c = "y" -> "Y" [] c = "z" -> "Z" [] OTHER -> c

\* str.lower()
Lower(s) == [i \in 1..Len(s) |-> LowerChar(s[i])]

\* str.upper()
Upper(s) == [i \in 1..Len(s) |-> UpperChar(s[i])]

\* `sub in s` for two strings
IsSubstr(sub, s) ==
    \E i \in 0..(Len(s) - Len(sub)) : SubSeq(s, i + 1, i + Len(sub)) = sub

\* `c in s` for a character
HasChar(c, s) == \E i \in 1..Len(s) : s[i] = c

RECURSIVE LStrip(_)
LStrip(s) == IF s # <<>> /\ Head(s) = " " THEN LStrip(Tail(s)) ELSE s

RECURSIVE RStrip(_)
RStrip(s) ==
    IF s # <<>> /\ s[Len(s)] = " " THEN RStrip(SubSeq(s, 1, Len(s) - 1)) ELSE s

\* str.strip()
Strip(s) == RStrip(LStrip(s))

\* str.split(','): the pieces between the commas, empty pieces kept
RECURSIVE Split(_)
Split(s) ==
    IF ~HasChar(",", s) THEN <<s>>
    ELSE LET k == CHOOSE i \in 1..Len(s) :
                      s[i] = "," /\ \A j \in 1..(i - 1) : s[j] # ","
         IN <<SubSeq(s, 1, k - 1)>> \o Split(SubSeq(s, k + 1, Len(s)))

IsDigit(c) == c \in {"0", "1", "2", "3", "4", "5", "6", "7", "8", "9"}

DigitVal(c) ==
    CASE c = "0" -> 0 [] c = "1" -> 1 [] c = "2" -> 2 [] c = "3" -> 3
      [] c = "4" -> 4 [] c = "5" -> 5 [] c = "6" -> 6 [] c = "7" -> 7
      [] c = "8" -> 8 [] c = "9" -> 9 [] OTHER -> 0

DigitChar(d) ==
    CASE d = 0 -> "0" [] d = 1 -> "1" [] d = 2 -> "2" [] d = 3 -> "3"
      [] d = 4 -> "4" [] d = 5 -> "5" [] d = 6 -> "6" [] d = 7 -> "7"
      [] d = 8 -> "8" [] OTHER -> "9"

RECURSIVE DigitsVal(_)
DigitsVal(s) ==
    IF s = <<>> THEN 0
    ELSE 10 * DigitsVal(SubSeq(s, 1, Len(s) - 1)) + DigitVal(s[Len(s)])

RECURSIVE NatStr(_)
NatStr(n) == IF n < 10 THEN <<DigitChar(n)>>
             ELSE NatStr(n \div 10) \o <<DigitChar(n % 10)>>

\* str(n) of an int
IntStr(n) == IF n < 0 THEN <<"-">> \o NatStr(0 - n) ELSE NatStr(n)

\* Two lists are equal after sorted(): they hold the same elements the same
\* number of times.
Count(x, l) == Cardinality({i \in 1..Len(l) : l[i] = x})

SortedEqual(a, b) ==
    /\ Len(a) = Len(b)
    /\ \A i \in 1..Len(a) : Count(a[i], a) = Count(a[i], b)

----------------------------------------------------------------------------
(* JSON values *)

VNull     == [t |-> "null", s |-> <<>>, l |-> <<>>, n |-> 0]
VAbsent   == [t |-> "absent", s |-> <<>>, l |-> <<>>, n |-> 0]
VStr(x)   == [t |-> "str", s |-> x, l |-> <<>>, n |-> 0]
VList(xs) == [t |-> "list", s |-> <<>>, l |-> xs, n |-> 0]
VNum(k)   == [t |-> "num", s |-> <<>>, l |-> <<>>, n |-> k]
VBool(b)  == [t |-> "bool", s |-> <<>>, l |-> <<>>, n |-> IF b THEN 1 ELSE 0]

\* dict.get(key): a missing key reads as None
Get(v) == IF v.t = "absent" THEN VNull ELSE v

\* repr of a list of strings, as str(list) gives it: ['a', 'b']
RECURSIVE ReprItems(_)
ReprItems(l) ==
    IF l = <<>> THEN <<>>
    ELSE <<"'">> \o Head(l) \o <<"'">>
         \o (IF Len(l) > 1 THEN <<",", " ">> ELSE <<>>) \o ReprItems(Tail(l))

\* str(value)
StrOf(v) ==
    CASE v.t = "str"  -> v.s
      [] v.t = "num"  -> IntStr(v.n)
      [] v.t = "bool" -> IF v.n = 1 THEN <<"T", "r", "u", "e">>
                                    ELSE <<"F", "a", "l", "s", "e">>
      [] v.t = "list" -> <<"[">> \o ReprItems(v.l) \o <<"]">>
      [] OTHER        -> <<"N", "o", "n", "e">>

\* float(value) succeeds
FloatOk(v) ==
    \/ v.t \in {"num", "bool"}
    \/ v.t = "str" /\ Strip(v.s) # <<>>
                   /\ \A i \in 1..Len(Strip(v.s)) : IsDigit(Strip(v.s)[i])

\* float(value), for the values FloatOk accepts (digit strings stand for the
\* numeric literals)
FloatOf(v) == IF v.t = "str" THEN DigitsVal(Strip(v.s)) ELSE v.n

----------------------------------------------------------------------------
(* core/automation/constants.py *)

OP_EQ           == "eq"
OP_NEQ          == "neq"
OP_CONTAINS     == "contains"
OP_NOT_CONTAINS == "not_contains"
OP_REGEX        == "regex"
OP_EXISTS       == "exists"
OP_NOT_EXISTS   == "not_exists"
OP_GT           == "gt"
OP_LT           == "lt"
OP_TRUE         == "is_true"
OP_FALSE        == "is_false"

ACT_MOVE       == "move_folder"
ACT_ADD_TAG    == "add_tag"
ACT_REMOVE_TAG == "remove_tag"
ACT_SET_FAV    == "set_favorite"

\* FIELD_MAP.get(raw_field, raw_field).  A field name is the sequence of its
\* dot-separated parts.
FIELD_MAP(raw) ==
    CASE raw \in {<<"wi_name">>, <<"wi_content">>} -> <<"character_book">>
      [] raw \in {<<"regex_name">>, <<"regex_content">>}
             -> <<"extensions", "regex_scripts">>
      [] raw \in {<<"st_script_name">>, <<"st_script_content">>}
             -> <<"extensions", "tavern_helper">>
      [] OTHER -> raw

----------------------------------------------------------------------------
(* AutomationEngine._check_condition *)

\* re.compile(pattern) fails.  The patterns of this model are literal
\* characters, an optional leading "^", and "(" (an unterminated group).
RegexInvalid(p) == HasChar("(", p)

\* bool(re.search(pattern, s, flags)) for a valid pattern of this model
RegexSearch(p, s, ignorecase) ==
    LET anchored == p # <<>> /\ Head(p) = "^"
        lit      == IF anchored THEN Tail(p) ELSE p
        ps       == IF ignorecase THEN Lower(lit) ELSE lit
        ss       == IF ignorecase THEN Lower(s) ELSE s
    IN IF anchored THEN Len(ps) <= Len(ss) /\ SubSeq(ss, 1, Len(ps)) = ps
       ELSE IsSubstr(ps, ss)

\* a variant that forgets the empty list
NotEmptyStrOnly(value) == ~(value.t = "str" /\ value.s = <<>>)

\* value != "" and value != []
NotEmpty(value) ==
    /\ ~(value.t = "str" /\ value.s = <<>>)
    /\ ~(value.t = "list" /\ value.l = <<>>)

\* The string and list comparisons (engine.py:117-161); value is not None.
CheckStr(value, operator, target_value, case_sensitive) ==
    LET fold     == ~case_sensitive /\ operator # OP_REGEX
        val_str  == IF fold THEN Lower(StrOf(value)) ELSE StrOf(value)
        tgt_str  == IF fold THEN Lower(StrOf(target_value))
                            ELSE StrOf(target_value)
        items    == value.l
        anyFold  == \E i \in 1..Len(items) : Lower(items[i]) = tgt_str
        anyExact == \E i \in 1..Len(items) : items[i] = StrOf(target_value)
    IN CASE operator = OP_EQ ->
              IF value.t = "list"
              THEN \* `',' in target_value` raises TypeError unless it is a str
                   /\ target_value.t = "str"
                   /\ LET parts       == Split(target_value.s)
                          target_list ==
                              IF HasChar(",", target_value.s)
                              THEN [i \in 1..Len(parts) |->
                                        Lower(Strip(parts[i]))]
                              ELSE <<tgt_str>>
                          value_list  ==
                              [i \in 1..Len(items) |-> Lower(items[i])]
                      IN SortedEqual(value_list, target_list)
              ELSE val_str = tgt_str
         [] operator = OP_NEQ -> val_str # tgt_str
         [] operator = OP_CONTAINS ->
              IF value.t = "list"
              THEN IF ~case_sensitive THEN anyFold ELSE anyExact
              ELSE IsSubstr(tgt_str, val_str)
         [] operator = OP_NOT_CONTAINS ->
              IF value.t = "list"
              THEN IF ~case_sensitive THEN ~anyFold ELSE ~anyExact
              ELSE ~IsSubstr(tgt_str, val_str)
         [] operator = OP_REGEX ->
              \* a pattern that is not a str, or does not compile, raises
              /\ target_value.t = "str"
              /\ ~RegexInvalid(target_value.s)
              /\ RegexSearch(target_value.s, StrOf(value), ~case_sensitive)
         [] OTHER -> FALSE

\* _check_condition: every exception is caught and gives False
\* _check_condition with a null value matching every other operator
CheckConditionNullMatches(value, operator, target_value, case_sensitive) ==
    CASE operator = OP_EXISTS     -> value.t # "null" /\ NotEmpty(value)
      [] operator = OP_NOT_EXISTS -> value.t = "null" \/ ~NotEmpty(value)
      [] value.t = "null"         -> TRUE
      [] operator \in {OP_GT, OP_LT} ->
            /\ FloatOk(value)
            /\ FloatOk(target_value)
            /\ IF operator = OP_GT
               THEN FloatOf(value) > FloatOf(target_value)
               ELSE FloatOf(value) < FloatOf(target_value)
      [] operator \in {OP_TRUE, OP_FALSE} ->
            LET bool_val == Lower(StrOf(value)) \in
                    {<<"t", "r", "u", "e">>, <<"1">>,
                     <<"y", "e", "s">>, <<"o", "n">>}
            IN IF operator = OP_TRUE THEN bool_val ELSE ~bool_val
      [] OTHER -> CheckStr(value, operator, target_value, case_sensitive)

CheckCondition(value, operator, target_value, case_sensitive) ==
    CASE operator = OP_EXISTS     -> value.t # "null" /\ NotEmpty(value)
      [] operator = OP_NOT_EXISTS -> value.t = "null" \/ ~NotEmpty(value)
      [] value.t = "null"         -> FALSE
      [] operator \in {OP_GT, OP_LT} ->
            /\ FloatOk(value)
            /\ FloatOk(target_value)
            /\ IF operator = OP_GT
               THEN FloatOf(value) > FloatOf(target_value)
               ELSE FloatOf(value) < FloatOf(target_value)
      [] operator \in {OP_TRUE, OP_FALSE} ->
            LET bool_val == Lower(StrOf(value)) \in
                    {<<"t", "r", "u", "e">>, <<"1">>,
                     <<"y", "e", "s">>, <<"o", "n">>}
            IN IF operator = OP_TRUE THEN bool_val ELSE ~bool_val
      [] OTHER -> CheckStr(value, operator, target_value, case_sensitive)

----------------------------------------------------------------------------
(* Card documents.  A card is a record                                     *)
(*   [char_name, tags, token_count, character_book_content : value,        *)
(*    character_book : [t, entries : [t, v]],                               *)
(*    extensions : [t, regex_scripts : [t, v], tavern_helper : [t, v]],     *)
(*    regex_scripts : [t, v]]                                               *)
(* where t is "absent", "null", "empty" (the dict {}), "dict", "list" or   *)
(* "str" (a non-empty value of an unexpected type) and v the elements.     *)

NoEntries  == [t |-> "absent", v |-> <<>>]
NoBook     == [t |-> "absent", entries |-> NoEntries]
NoScripts  == [t |-> "absent", v |-> <<>>]
NoExt      == [t |-> "absent", regex_scripts |-> NoScripts,
               tavern_helper |-> NoScripts]

\* the keys of a card that hold plain values
ValueKeys == {"char_name", "tags", "token_count", "character_book_content"}

\* card_data.get(key) for a key holding a plain value, None for any other
\* key of the bounded field set
CardGet(cd, key) == IF key \in ValueKeys THEN Get(cd[key]) ELSE VNull

Returned(v) == [raised |-> FALSE, val |-> v]
Raised      == [raised |-> TRUE, val |-> VNull]

\* [str(f(e)) for e in seq if isinstance(e, dict)]
RECURSIVE MapDicts(_, _)
MapDicts(seq, key) ==
    IF seq = <<>> THEN <<>>
    ELSE (IF Head(seq).t = "dict" THEN <<Head(seq)[key]>> ELSE <<>>)
         \o MapDicts(Tail(seq), key)

\* [str(s.get('findRegex') or s.get('regex') or '') for s in scripts
\*  if isinstance(s, dict)]
RECURSIVE RegexContents(_)
RegexContents(seq) ==
    IF seq = <<>> THEN <<>>
    ELSE (IF Head(seq).t = "dict"
          THEN <<IF Head(seq).findRegex # <<>> THEN Head(seq).findRegex
                 ELSE Head(seq).regex>>
          ELSE <<>>)
         \o RegexContents(Tail(seq))

\* searchable: content then comment of every dict entry
RECURSIVE Searchable(_)
Searchable(seq) ==
    IF seq = <<>> THEN <<>>
    ELSE (IF Head(seq).t = "dict"
          THEN <<Head(seq).content, Head(seq).comment>> ELSE <<>>)
         \o Searchable(Tail(seq))

\* bool(x) of a collection-valued key
Truthy(x) == x.t \in {"dict", "list", "str"} /\ (x.t = "list" => x.v # <<>>)

\* AutomationEngine._get_field_value
GetFieldValue(cd, field_key, specific_target) ==
    CASE field_key = <<>> -> Returned(VNull)
      [] field_key \in {<<"extensions", "regex_scripts">>, <<"regex_scripts">>} ->
            LET ext == cd.extensions
            IN IF ext.t \notin {"absent", "dict"} THEN Raised
               ELSE LET s1      == IF ext.t = "dict" THEN ext.regex_scripts
                                                     ELSE NoScripts
                        scripts == IF Truthy(s1) THEN s1
                                   ELSE IF cd.regex_scripts.t = "absent"
                                        THEN [t |-> "list", v |-> <<>>]
                                        ELSE cd.regex_scripts
                    IN IF scripts.t = "list"
                       THEN IF specific_target = <<"regex_content">>
                            THEN Returned(VList(RegexContents(scripts.v)))
                            ELSE Returned(VList(MapDicts(scripts.v, "scriptName")))
                       ELSE Returned(VList(<<>>))
      [] field_key = <<"character_book">> ->
            LET book == cd.character_book
            IN IF book.t \notin {"absent", "empty", "dict"} THEN Raised
               ELSE LET e0      == IF book.t = "dict" THEN book.entries
                                                      ELSE NoEntries
                        \* .get('entries', []); a dict gives list(values())
                        entries == IF e0.t \in {"absent", "dict"}
                                   THEN [t |-> "list", v |-> e0.v] ELSE e0
                    IN IF entries.t = "list"
                       THEN CASE specific_target = <<"wi_content">> ->
                                   Returned(VList(MapDicts(entries.v, "content")))
                              [] specific_target = <<"wi_name">> ->
                                   Returned(VList(MapDicts(entries.v, "comment")))
                              [] OTHER ->
                                   Returned(VList(Searchable(entries.v)))
                       ELSE Returned(VList(<<>>))
      [] field_key = <<"extensions", "tavern_helper">> ->
            LET ext == cd.extensions
            IN IF ext.t \notin {"absent", "dict"} THEN Raised
               ELSE LET h0 == IF ext.t = "dict" THEN ext.tavern_helper
                                                ELSE NoScripts
                        helper_data == IF h0.t = "absent"
                                       THEN [t |-> "list", v |-> <<>>] ELSE h0
                        hits == {i \in 1..Len(helper_data.v) :
                                    /\ helper_data.v[i].t = "pair"
                                    /\ helper_data.v[i].label = "scripts"}
                        first == CHOOSE i \in hits : \A j \in hits : i <= j
                        scripts_list ==
                            IF hits # {} /\ helper_data.v[first].payload.t = "list"
                            THEN helper_data.v[first].payload.v ELSE <<>>
                    IN IF helper_data.t # "list" THEN Returned(VList(<<>>))
                       ELSE IF scripts_list = <<>> THEN Returned(VList(<<>>))
                       ELSE IF specific_target = <<"st_script_content">>
                            THEN Returned(VList(MapDicts(scripts_list, "content")))
                            ELSE Returned(VList(MapDicts(scripts_list, "name")))
      [] Len(field_key) > 1 ->
            \* the walk stops with None at the first value that is no dict; the
            \* dotted names of this model start at a plain value or a
            \* missing key
            Returned(VNull)
      [] OTHER -> Returned(CardGet(cd, field_key[1]))

----------------------------------------------------------------------------
(* Rulesets.  An optional key is [has, v]: has is FALSE when the key is     *)
(* missing.                                                                 *)

Some(x) == [has |-> TRUE, v |-> x]
NoStr   == [has |-> FALSE, v |-> <<>>]
NoSeq   == [has |-> FALSE, v |-> <<>>]
NoBool  == [has |-> FALSE, v |-> FALSE]

\* d.get(key, default)
GetOr(opt, default) == IF opt.has THEN opt.v ELSE default

\* " ".join(parts)
RECURSIVE Join(_)
Join(parts) ==
    IF parts = <<>> THEN <<>>
    ELSE IF Len(parts) = 1 THEN Head(parts)
    ELSE Head(parts) \o <<" ">> \o Join(Tail(parts))

\* [str(content) + " " + str(comment) for e in entries if isinstance(e, dict)]
RECURSIVE WiParts(_)
WiParts(seq) ==
    IF seq = <<>> THEN <<>>
    ELSE (IF Head(seq).t = "dict"
          THEN <<Head(seq).content \o <<" ">> \o Head(seq).comment>>
          ELSE <<>>)
         \o WiParts(Tail(seq))

\* engine.py:175-180 raises (a truthy character_book without .get)
PrecomputeRaises(cd) == cd.character_book.t \in {"str", "list"}

\* engine.py:175-180: card_data after the precomputation
Precompute(cd) ==
    LET book == cd.character_book
        e0   == book.entries
    IN IF book.t = "dict" /\ e0.t \in {"absent", "dict", "list"}
       THEN [cd EXCEPT !.character_book_content = VStr(Join(WiParts(e0.v)))]
       ELSE cd

\* engine.py:218-231: the field read of one condition raises
CondRaises(cd, cond) ==
    GetFieldValue(cd, FIELD_MAP(cond.field), cond.field).raised

\* engine.py:218-231: res of one condition
CondResult(cd, cond) ==
    CheckCondition(GetFieldValue(cd, FIELD_MAP(cond.field), cond.field).val,
                   cond.operator, cond.value, cond.case_sensitive)

\* engine.py:187-194: the groups of a rule after the legacy wrapping
RuleGroups(rule) ==
    LET rule_groups == GetOr(rule.groups, <<>>)
    IN IF rule_groups = <<>> /\ GetOr(rule.conditions, <<>>) # <<>>
       THEN <<[logic |-> Some(<<"A", "N", "D">>),
               conditions |-> Some(GetOr(rule.conditions, <<>>))]>>
       ELSE rule_groups

\* GroupMatch without the `if not conditions` of engine.py:213-215
GroupMatchVacuous(cd, group) ==
    LET conditions  == GetOr(group.conditions, <<>>)
        group_logic == Upper(GetOr(group.logic, <<"A", "N", "D">>))
    IN IF group_logic = <<"A", "N", "D">>
       THEN \A i \in 1..Len(conditions) : CondResult(cd, conditions[i])
       ELSE \E i \in 1..Len(conditions) : CondResult(cd, conditions[i])

\* engine.py:208-239: group_match of one group
\* GroupMatch with OR as the default logic of a group
GroupMatchDefaultOr(cd, group) ==
    LET conditions  == GetOr(group.conditions, <<>>)
        group_logic == Upper(GetOr(group.logic, <<"O", "R">>))
    IN IF conditions = <<>> THEN FALSE
       ELSE IF group_logic = <<"A", "N", "D">>
            THEN \A i \in 1..Len(conditions) : CondResult(cd, conditions[i])
            ELSE \E i \in 1..Len(conditions) : CondResult(cd, conditions[i])

GroupMatch(cd, group) ==
    LET conditions  == GetOr(group.conditions, <<>>)
        group_logic == Upper(GetOr(group.logic, <<"A", "N", "D">>))
    IN IF conditions = <<>> THEN FALSE
       ELSE IF group_logic = <<"A", "N", "D">>
            THEN \A i \in 1..Len(conditions) : CondResult(cd, conditions[i])
            ELSE \E i \in 1..Len(conditions) : CondResult(cd, conditions[i])

\* engine.py:203-246: is_rule_match of a rule with groups
RuleMatch(cd, rule) ==
    LET rule_groups    == RuleGroups(rule)
        rule_top_logic == Upper(GetOr(rule.logic, <<"O", "R">>))
    IN IF rule_top_logic = <<"A", "N", "D">>
       THEN \A g \in 1..Len(rule_groups) : GroupMatch(cd, rule_groups[g])
       ELSE \E g \in 1..Len(rule_groups) : GroupMatch(cd, rule_groups[g])

\* a field read of some condition of the rule raises
RuleRaises(cd, rule) ==
    LET rule_groups == RuleGroups(rule)
    IN \E g \in 1..Len(rule_groups) :
          LET conditions == GetOr(rule_groups[g].conditions, <<>>)
          IN \E i \in 1..Len(conditions) : CondRaises(cd, conditions[i])

Enabled(rule) == GetOr(rule.enabled, TRUE)

\* RuleOutcome without the break of engine.py:255-256
RuleOutcomeNoBreak(cd, rule) ==
    CASE ~Enabled(rule)           -> "disabled"
      [] RuleGroups(rule) = <<>>  -> "nogroups"
      [] RuleRaises(cd, rule)     -> "raise"
      [] ~RuleMatch(cd, rule)     -> "nomatch"
      [] OTHER                    -> "match"

\* RuleOutcome without the `if not rule_groups: continue` of engine.py:197-198
RuleOutcomeNoSkip(cd, rule) ==
    CASE ~Enabled(rule)           -> "disabled"
      [] RuleRaises(cd, rule)     -> "raise"
      [] ~RuleMatch(cd, rule)     -> "nomatch"
      [] GetOr(rule.stop_on_match, FALSE) -> "matchstop"
      [] OTHER                    -> "match"

\* what one iteration of the for loop (engine.py:183-256) does with a rule
RuleOutcome(cd, rule) ==
    CASE ~Enabled(rule)           -> "disabled"
      [] RuleGroups(rule) = <<>>  -> "nogroups"
      [] RuleRaises(cd, rule)     -> "raise"
      [] ~RuleMatch(cd, rule)     -> "nomatch"
      [] GetOr(rule.stop_on_match, FALSE) -> "matchstop"
      [] OTHER                    -> "match"

----------------------------------------------------------------------------
(* The inputs of evaluate *)

Entry(content, comment) ==
    [t |-> "dict", content |-> content, comment |-> comment]

BookOf(entriesTag, es) ==
    [t |-> "dict", entries |-> [t |-> entriesTag, v |-> es]]

CardOf(name, tags, book) ==
    [char_name |-> VStr(name), tags |-> VList(tags), token_count |-> VNum(12),
     character_book_content |-> VAbsent, character_book |-> book,
     extensions |-> NoExt, regex_scripts |-> NoScripts]

Cards ==
    { CardOf(<<"A", "b">>, <<<<"a">>, <<"B">>>>, NoBook),
      CardOf(<<>>, <<>>, BookOf("list", <<Entry(<<"x">>, <<"A", "b">>)>>)),
      CardOf(<<"A", "b">>, <<<<"a">>>>,
             BookOf("dict", <<Entry(<<"x">>, <<"a", "b">>),
                              [t |-> "str", content |-> <<>>, comment |-> <<>>]>>)),
      CardOf(<<>>, <<>>, [t |-> "empty", entries |-> NoEntries]),
      CardOf(<<"A", "b">>, <<<<"a">>>>, [t |-> "null", entries |-> NoEntries]),
      CardOf(<<"A", "b">>, <<<<"a">>>>, [t |-> "str", entries |-> NoEntries]) }

\* tags contains "A" (case-insensitive); wi_name contains "ab"; char_name
\* equals "ab" (case-insensitive)
AllConds ==
    << [field |-> <<"tags">>, operator |-> OP_CONTAINS, value |-> VStr(<<"A">>),
        case_sensitive |-> FALSE],
       [field |-> <<"wi_name">>, operator |-> OP_CONTAINS,
        value |-> VStr(<<"a", "b">>), case_sensitive |-> FALSE],
       [field |-> <<"char_name">>, operator |-> OP_EQ,
        value |-> VStr(<<"a", "b">>), case_sensitive |-> FALSE] >>

\* the conditions of the rule-ordering inputs
Conds == {AllConds[1], AllConds[2]}

AllActions ==
    << [type |-> ACT_ADD_TAG, arg |-> "t1"], [type |-> ACT_MOVE, arg |-> "dir"],
       [type |-> ACT_SET_FAV, arg |-> "true"], [type |-> ACT_REMOVE_TAG, arg |-> "t2"] >>

\* the sequences over S of length Len at most n
SeqsUpTo(S, n) == UNION {[1..k -> S] : k \in 0..n}

\* the elements of seq at the indexes of S that are at least i, in order
RECURSIVE Pick(_, _, _)
Pick(seq, S, i) ==
    IF i > Len(seq) THEN <<>>
    ELSE (IF i \in S THEN <<seq[i]>> ELSE <<>>) \o Pick(seq, S, i + 1)

\* the action lists of a rule: none, or the first MaxActions - 1 or
\* MaxActions actions
ActSeqs  == {<<>>} \cup {SubSeq(AllActions, 1, n) : n \in {MaxActions - 1, MaxActions}}

\* the condition lists of a group: at most MaxConds of AllConds, in order
CondSeqs ==
    {Pick(AllConds, S, 1) :
       S \in {T \in SUBSET (1..Len(AllConds)) : Cardinality(T) <= MaxConds}}

Groups ==
    [logic : {NoStr, Some(<<"o", "r">>)}, conditions : {Some(c) : c \in CondSeqs}]

\* rule-ordering inputs: one group of one condition; enabled, stop_on_match
\* and the actions vary (a disabled rule has stop_on_match set)
OrderRules ==
    { [enabled |-> Some(es[1]), logic |-> NoStr,
       groups |-> Some(<<[logic |-> NoStr, conditions |-> Some(<<c>>)]>>),
       conditions |-> NoSeq, actions |-> Some(acts), stop_on_match |-> Some(es[2])] :
      es \in {<<TRUE, FALSE>>, <<TRUE, TRUE>>, <<FALSE, TRUE>>},
      c \in Conds, acts \in ActSeqs }

\* group-structure inputs: the groups, the legacy conditions and the logic
\* vary
GroupRules ==
    { [enabled |-> NoBool, logic |-> lg, groups |-> gs, conditions |-> cs,
       actions |-> Some(SubSeq(AllActions, 1, 1)), stop_on_match |-> NoBool] :
      lg \in {NoStr, Some(<<"A", "N", "D">>), Some(<<"o", "r">>)},
      gs \in {Some(g) : g \in SeqsUpTo(Groups, MaxGroups) \ {<<>>}},
      cs \in {NoSeq} }
    \cup
    { [enabled |-> NoBool, logic |-> lg, groups |-> gs, conditions |-> cs,
       actions |-> Some(SubSeq(AllActions, 1, 1)), stop_on_match |-> NoBool] :
      lg \in {NoStr, Some(<<"A", "N", "D">>), Some(<<"o", "r">>)},
      gs \in {Some(<<g>>) : g \in Groups},
      cs \in {Some(<<AllConds[1]>>)} }
    \cup
    { [enabled |-> NoBool, logic |-> lg, groups |-> gs, conditions |-> cs,
       actions |-> Some(SubSeq(AllActions, 1, 1)), stop_on_match |-> NoBool] :
      lg \in {NoStr, Some(<<"A", "N", "D">>), Some(<<"o", "r">>)},
      gs \in {NoSeq, Some(<<>>)},
      cs \in {NoSeq} \cup {Some(c) : c \in CondSeqs} }

Rulesets ==
    { [rules |-> rs] : rs \in SeqsUpTo(OrderRules, MaxRules) }
    \cup { [rules |-> <<r>>] : r \in GroupRules }

----------------------------------------------------------------------------
(* AutomationEngine.evaluate *)

EngineInit ==
    /\ card0 \in Cards
    /\ card = card0
    /\ ruleset \in Rulesets
    /\ epc = "start"
    /\ ei = 1
    /\ plan = <<>>
    /\ visited = <<>>
    /\ matched = <<>>

\* the value of a component that takes no part in a run
Unused == <<>>

EngineIdle ==
    /\ card0 = Unused
    /\ card = Unused
    /\ ruleset = Unused
    /\ epc = "idle"
    /\ ei = 1
    /\ plan = <<>>
    /\ visited = <<>>
    /\ matched = <<>>

\* engine.py:170-180
EvalPrecompute ==
    /\ epc = "start"
    /\ ~PrecomputeRaises(card)
    /\ card' = Precompute(card)
    /\ epc' = "loop"
    /\ UNCHANGED <<card0, ruleset, ei, plan, visited, matched>>
    /\ UNCHANGED <<xvars, tvars, dvars, cvars, mvars>>

\* engine.py:176: AttributeError leaves evaluate
EvalPrecomputeRaise ==
    /\ epc = "start"
    /\ PrecomputeRaises(card)
    /\ epc' = "raised"
    /\ UNCHANGED <<card, card0, ruleset, ei, plan, visited, matched>>
    /\ UNCHANGED <<xvars, tvars, dvars, cvars, mvars>>

\* the rule the for loop takes up next
CurRule == ruleset.rules[ei]

InLoop(kind) ==
    /\ epc = "loop"
    /\ ei <= Len(ruleset.rules)
    /\ RuleOutcome(card, CurRule) = kind
    /\ visited' = Append(visited, ei)

\* engine.py:184: continue
EvalSkipDisabled ==
    /\ InLoop("disabled")
    /\ ei' = ei + 1
    /\ UNCHANGED <<card, card0, ruleset, epc, plan, matched>>
    /\ UNCHANGED <<xvars, tvars, dvars, cvars, mvars>>

\* engine.py:197-198: continue
EvalSkipNoGroups ==
    /\ InLoop("nogroups")
    /\ ei' = ei + 1
    /\ UNCHANGED <<card, card0, ruleset, epc, plan, matched>>
    /\ UNCHANGED <<xvars, tvars, dvars, cvars, mvars>>

\* engine.py:227: a field read raises, the exception leaves evaluate
EvalRaise ==
    /\ InLoop("raise")
    /\ epc' = "raised"
    /\ UNCHANGED <<card, card0, ruleset, ei, plan, matched>>
    /\ UNCHANGED <<xvars, tvars, dvars, cvars, mvars>>

\* engine.py:242-248: is_rule_match is False
EvalNoMatch ==
    /\ InLoop("nomatch")
    /\ ei' = ei + 1
    /\ UNCHANGED <<card, card0, ruleset, epc, plan, matched>>
    /\ UNCHANGED <<xvars, tvars, dvars, cvars, mvars>>

\* Collect putting the actions of a rule in front of the plan
CollectInFront(actions, rule) == GetOr(rule.actions, <<>>) \o actions

\* engine.py:251-252: plan['actions'] after the actions of a rule are appended
Collect(actions, rule) == actions \o GetOr(rule.actions, <<>>)

\* engine.py:248-252: the actions of the rule are appended
EvalMatch ==
    /\ InLoop("match")
    /\ plan' = Collect(plan, CurRule)
    /\ matched' = Append(matched, ei)
    /\ ei' = ei + 1
    /\ UNCHANGED <<card, card0, ruleset, epc>>
    /\ UNCHANGED <<xvars, tvars, dvars, cvars, mvars>>

\* engine.py:248-258: the actions are appended, break, return plan
EvalMatchStop ==
    /\ InLoop("matchstop")
    /\ plan' = Collect(plan, CurRule)
    /\ matched' = Append(matched, ei)
    /\ epc' = "returned"
    /\ UNCHANGED <<card, card0, ruleset, ei>>
    /\ UNCHANGED <<xvars, tvars, dvars, cvars, mvars>>

\* engine.py:258: the loop is exhausted, return plan
EvalReturn ==
    /\ epc = "loop"
    /\ ei > Len(ruleset.rules)
    /\ epc' = "returned"
    /\ UNCHANGED <<card, card0, ruleset, ei, plan, visited, matched>>
    /\ UNCHANGED <<xvars, tvars, dvars, cvars, mvars>>

EngineNext ==
    \/ EvalPrecompute
    \/ EvalPrecomputeRaise
    \/ EvalSkipDisabled
    \/ EvalSkipNoGroups
    \/ EvalRaise
    \/ EvalNoMatch
    \/ EvalMatch
    \/ EvalMatchStop
    \/ EvalReturn

----------------------------------------------------------------------------
(* AutomationExecutor.apply_plan and the card service it calls.  A card id  *)
(* is the sequence of its path segments, a folder likewise (<<>> is the     *)
(* root folder); None is [has |-> FALSE].                                   *)

Tags    == {"t1", "t2"}
Folders == {<<>>, <<"A">>}
CardIds == {<<"c">>, <<"A", "c">>}
NoId    == [has |-> FALSE, v |-> <<>>]
FavVals == {"none", "true", "false"}   \* plan.get('favorite'): None/True/False

Plans ==
    [move : {NoId} \cup {Some(f) : f \in Folders},
     add_tags : SUBSET Tags, remove_tags : SUBSET Tags, favorite : FavVals]

\* Phases with the move before the attribute changes
PhasesMoveFirst == <<"move", "attrs", "return">>

\* the order in which apply_plan runs its two collaborator calls
Phases == <<"attrs", "move", "return">>

\* executor.py:28
HasAttrs(p) == p.add_tags # {} \/ p.remove_tags # {} \/ p.favorite # "none"

\* a move that always stores the card under a new name
MovedIdRenamed(id, folder) == folder \o <<id[Len(id)], "1">>

\* card service: the id a card gets in the target folder
MovedId(id, folder) == folder \o <<id[Len(id)]>>

\* IdAfterMove taking the reported id whether or not the move succeeded
IdAfterMoveAlways(success, cur, new_id) == new_id

\* executor.py:41-45: current_id after the move call returned
IdAfterMove(success, cur, new_id) == IF success THEN new_id ELSE cur

ExecInit ==
    /\ xin \in [card_id : CardIds, plan : Plans]
    /\ store \in [id : CardIds, tags : SUBSET Tags, fav : BOOLEAN]
    /\ store0 = store
    /\ xpc = 1
    /\ current_id = xin.card_id
    /\ result = [moved_to |-> NoId, tags_added |-> {}, tags_removed |-> {},
                 fav_changed |-> FALSE, final_id |-> NoId]
    /\ calls = <<>>

ExecIdle ==
    /\ xin = Unused
    /\ store = Unused
    /\ store0 = Unused
    /\ xpc = 0
    /\ current_id = Unused
    /\ result = Unused
    /\ calls = <<>>

AtPhase(ph) == xpc \in 1..Len(Phases) /\ Phases[xpc] = ph

\* executor.py:28: nothing to modify
ExecNoAttrs ==
    /\ AtPhase("attrs")
    /\ ~HasAttrs(xin.plan)
    /\ xpc' = xpc + 1
    /\ UNCHANGED <<xin, current_id, result, calls, store, store0>>
    /\ UNCHANGED <<evars, tvars, dvars, cvars, mvars>>

\* executor.py:29-33: modify_card_attributes_internal succeeds
ExecModifyOk ==
    /\ AtPhase("attrs")
    /\ HasAttrs(xin.plan)
    /\ store.id = current_id
    /\ store' = [store EXCEPT
                   !.tags = (@ \cup xin.plan.add_tags) \ xin.plan.remove_tags,
                   !.fav = IF xin.plan.favorite = "none" THEN @
                           ELSE xin.plan.favorite = "true"]
    /\ calls' = Append(calls, [fn |-> "modify", id |-> current_id, ok |-> TRUE,
                               after |-> store'])
    /\ result' = [result EXCEPT !.tags_added = xin.plan.add_tags,
                                !.tags_removed = xin.plan.remove_tags,
                                !.fav_changed = xin.plan.favorite # "none"]
    /\ xpc' = xpc + 1
    /\ UNCHANGED <<xin, current_id, store0>>
    /\ UNCHANGED <<evars, tvars, dvars, cvars, mvars>>

\* executor.py:29-30: modify_card_attributes_internal reports failure
ExecModifyFail ==
    /\ AtPhase("attrs")
    /\ HasAttrs(xin.plan)
    /\ calls' = Append(calls, [fn |-> "modify", id |-> current_id, ok |-> FALSE,
                               after |-> store])
    /\ xpc' = xpc + 1
    /\ UNCHANGED <<xin, current_id, result, store, store0>>
    /\ UNCHANGED <<evars, tvars, dvars, cvars, mvars>>

\* executor.py:36-37: no move in the plan
ExecNoMove ==
    /\ AtPhase("move")
    /\ ~xin.plan.move.has
    /\ xpc' = xpc + 1
    /\ UNCHANGED <<xin, current_id, result, calls, store, store0>>
    /\ UNCHANGED <<evars, tvars, dvars, cvars, mvars>>

\* executor.py:40-43: move_card_internal succeeds and reports the new id
ExecMoveOk ==
    /\ AtPhase("move")
    /\ xin.plan.move.has
    /\ store.id = current_id
    /\ LET new_id == MovedId(current_id, xin.plan.move.v)
       IN /\ store' = [store EXCEPT !.id = new_id]
          /\ calls' = Append(calls, [fn |-> "move", id |-> current_id,
                                     ok |-> TRUE, after |-> store'])
          /\ current_id' = IdAfterMove(TRUE, current_id, new_id)
    /\ result' = [result EXCEPT !.moved_to = Some(xin.plan.move.v)]
    /\ xpc' = xpc + 1
    /\ UNCHANGED <<xin, store0>>
    /\ UNCHANGED <<evars, tvars, dvars, cvars, mvars>>

\* executor.py:40-45: move_card_internal reports failure (new id None)
ExecMoveFail ==
    /\ AtPhase("move")
    /\ xin.plan.move.has
    /\ calls' = Append(calls, [fn |-> "move", id |-> current_id, ok |-> FALSE,
                               after |-> store])
    /\ current_id' = IdAfterMove(FALSE, current_id, <<>>)
    /\ xpc' = xpc + 1
    /\ UNCHANGED <<xin, result, store, store0>>
    /\ UNCHANGED <<evars, tvars, dvars, cvars, mvars>>

\* executor.py:47-48
ExecReturn ==
    /\ AtPhase("return")
    /\ result' = [result EXCEPT !.final_id = Some(current_id)]
    /\ xpc' = xpc + 1
    /\ UNCHANGED <<xin, current_id, calls, store, store0>>
    /\ UNCHANGED <<evars, tvars, dvars, cvars, mvars>>

ExecDone == xpc = Len(Phases) + 1

ExecNext ==
    \/ ExecNoAttrs
    \/ ExecModifyOk
    \/ ExecModifyFail
    \/ ExecNoMove
    \/ ExecMoveOk
    \/ ExecMoveFail
    \/ ExecReturn

----------------------------------------------------------------------------
(* serve_thumbnail (core/api/v1/resources.py) and ctx.thumb_semaphore       *)
(* (core/context.py).  A requested filename is [json, dir, base]: the file  *)
(* <dir>/<base>.json or the image <dir>/<base>.png.  An image is            *)
(* <<dir, base>>.                                                           *)

\* threading.Semaphore(4)
ThumbPermits == 4

\* the largest number of concurrent requests of the model
HerdSize == ThumbPermits + 1

Requests == 1..HerdSize

NameA     == [json |-> FALSE, dir |-> "", base |-> "a"]    \* a.png
NameSubA  == [json |-> FALSE, dir |-> "A", base |-> "a"]   \* A/a.png
NameGone  == [json |-> FALSE, dir |-> "", base |-> "m"]    \* m.png, missing
NameJson  == [json |-> TRUE, dir |-> "A", base |-> "a"]    \* A/a.json
NameAlone == [json |-> TRUE, dir |-> "A", base |-> "n"]    \* A/n.json, no image
Names     == {NameA, NameSubA, NameGone, NameJson, NameAlone}

Images == {<<"", "a">>, <<"A", "a">>, <<"", "m">>, <<"A", "n">>}

\* resources.py:59: the image file a filename denotes
ImageOf(name) == <<name.dir, name.base>>

\* find_sidecar_image: the image next to a card JSON file, with its name
HasSidecar(name) == srcM[ImageOf(name)] >= 0

\* resources.py:71,80-82: the cache file name.  For a JSON request it is made
\* of os.path.basename(sidecar), for an image request of the whole relative
\* name; md5 is taken to be injective.
ThumbKey(name) == IF name.json THEN <<"", name.base>> ELSE <<name.dir, name.base>>

\* the cache files of the images that exist
Keys == {ThumbKey(n) : n \in {NameA, NameSubA, NameJson}}

\* a cache file: st is "none" (no file), "partial" (being written) or
\* "full"; m is its mtime and of the image it was made from
NoThumb == [st |-> "none", m |-> 0, of |-> <<"", "">>]

\* MtimeOk asking for a cache file newer than the source
MtimeOkStrict(thumb_mtime, original_mtime) == thumb_mtime > original_mtime

\* resources.py:85-88 and 95: the cache file exists and is not older than
\* the source
MtimeOk(thumb_mtime, original_mtime) == thumb_mtime >= original_mtime

CacheValid(name) ==
    /\ thumb[ThumbKey(name)].st # "none"
    /\ MtimeOk(thumb[ThumbKey(name)].m, srcM[ImageOf(name)])

\* Recheck finding the cache invalid whatever its state
RecheckNever(name) == FALSE

\* resources.py:95: the validity check repeated under the permit
Recheck(name) == CacheValid(name)

\* CanAcquire letting a request in when no permit is left
CanAcquireAlways(p) == p >= 0

\* threading.Semaphore: acquire blocks while the counter is 0
CanAcquire(p) == p > 0

\* the modification times a file written now can get: the clock is not
\* behind any file
WriteTimes ==
    {t \in 0..MaxTime : /\ \A i \in Images : srcM[i] <= t
                        /\ \A k \in Keys : thumb[k].st # "none" => thumb[k].m <= t}

NoResp == [status |-> "none", via |-> "none"]

\* resources.py:65-68, 74-77: the response when there is no source image
NoSourceResp(via) ==
    [status |-> IF defaultImg THEN "default" ELSE "404", via |-> via]

\* FailureResp without the fallback to the default image
FailureRespNoFallback == [status |-> "500", via |-> "failed"]

\* resources.py:121-127: the response of the exception handler
FailureResp ==
    [status |-> IF defaultImg THEN "default" ELSE "500", via |-> "failed"]

\* the thumbnail files a run can start with
ThumbFiles(k) ==
    {NoThumb} \cup [st : {"full"}, m : 0..MaxTime, of : {k}]

ThumbInitWith(active, names) ==
    /\ srcM \in [Images -> -1..MaxTime]
    /\ srcM[<<"", "a">>] >= 0 /\ srcM[<<"A", "a">>] >= 0
    /\ srcM[<<"", "m">>] = -1 /\ srcM[<<"A", "n">>] = -1
    /\ thumb \in [Keys -> UNION {ThumbFiles(k) : k \in Keys}]
    /\ \A k \in Keys : thumb[k] \in ThumbFiles(k)
    /\ defaultImg \in BOOLEAN
    /\ permits = ThumbPermits
    /\ treq \in names
    /\ tpc = [r \in Requests |-> IF r \in active THEN "start" ELSE "off"]
    /\ tout = [r \in Requests |-> NoResp]

\* the position of a filename in a fixed order of Names
NameIdx(n) ==
    CHOOSE i \in 1..5 : <<NameA, NameSubA, NameGone, NameJson, NameAlone>>[i] = n

\* NumReq requests; requests are interchangeable, so their filenames are
\* taken in nondecreasing order
ThumbInit ==
    ThumbInitWith(1..NumReq,
                  {f \in [Requests -> Names] :
                      /\ \A r \in Requests : r > NumReq => f[r] = NameA
                      /\ \A r \in 1..(NumReq - 1) :
                            NameIdx(f[r]) <= NameIdx(f[r + 1])})

ThumbIdle ==
    /\ srcM = Unused
    /\ thumb = Unused
    /\ defaultImg = FALSE
    /\ permits = ThumbPermits
    /\ treq = Unused
    /\ tpc = Unused
    /\ tout = Unused

Finish(r, resp) ==
    /\ tpc' = [tpc EXCEPT ![r] = "done"]
    /\ tout' = [tout EXCEPT ![r] = resp]

\* resources.py:62-68: a JSON file without a sidecar image
TNoSidecar(r) ==
    /\ tpc[r] = "start"
    /\ treq[r].json /\ ~HasSidecar(treq[r])
    /\ Finish(r, NoSourceResp("nosidecar"))
    /\ UNCHANGED <<treq, permits, srcM, thumb, defaultImg>>
    /\ UNCHANGED <<evars, xvars, dvars, cvars, mvars>>

\* resources.py:73-77: the source image does not exist
TMissing(r) ==
    /\ tpc[r] = "start"
    /\ ~treq[r].json /\ srcM[ImageOf(treq[r])] < 0
    /\ Finish(r, NoSourceResp("missing"))
    /\ UNCHANGED <<treq, permits, srcM, thumb, defaultImg>>
    /\ UNCHANGED <<evars, xvars, dvars, cvars, mvars>>

\* resources.py:85-89: the cache entry is valid
THit(r) ==
    /\ tpc[r] = "start"
    /\ srcM[ImageOf(treq[r])] >= 0
    /\ CacheValid(treq[r])
    /\ Finish(r, [status |-> "thumb", via |-> "check"])
    /\ UNCHANGED <<treq, permits, srcM, thumb, defaultImg>>
    /\ UNCHANGED <<evars, xvars, dvars, cvars, mvars>>

\* resources.py:85-93: no valid cache entry, go on to the semaphore
TMiss(r) ==
    /\ tpc[r] = "start"
    /\ srcM[ImageOf(treq[r])] >= 0
    /\ ~CacheValid(treq[r])
    /\ tpc' = [tpc EXCEPT ![r] = "wait"]
    /\ UNCHANGED <<treq, tout, permits, srcM, thumb, defaultImg>>
    /\ UNCHANGED <<evars, xvars, dvars, cvars, mvars>>

\* resources.py:93: `with ctx.thumb_semaphore` acquires a permit
TAcquire(r) ==
    /\ tpc[r] = "wait"
    /\ CanAcquire(permits)
    /\ permits' = permits - 1
    /\ tpc' = [tpc EXCEPT ![r] = "recheck"]
    /\ UNCHANGED <<treq, tout, srcM, thumb, defaultImg>>
    /\ UNCHANGED <<evars, xvars, dvars, cvars, mvars>>

\* resources.py:95-96: valid at the re-check; the permit is released
TRecheckHit(r) ==
    /\ tpc[r] = "recheck"
    /\ Recheck(treq[r])
    /\ permits' = permits + 1
    /\ Finish(r, [status |-> "thumb", via |-> "recheck"])
    /\ UNCHANGED <<treq, srcM, thumb, defaultImg>>
    /\ UNCHANGED <<evars, xvars, dvars, cvars, mvars>>

\* resources.py:95-98: still invalid, the image is opened
TRecheckMiss(r) ==
    /\ tpc[r] = "recheck"
    /\ ~Recheck(treq[r])
    /\ tpc' = [tpc EXCEPT ![r] = "gen"]
    /\ UNCHANGED <<treq, tout, permits, srcM, thumb, defaultImg>>
    /\ UNCHANGED <<evars, xvars, dvars, cvars, mvars>>

\* TGenFail leaving the `with` block without releasing the permit
TGenFailLeak(r) ==
    /\ tpc[r] = "gen"
    /\ Finish(r, FailureResp)
    /\ UNCHANGED <<treq, permits, srcM, thumb, defaultImg>>
    /\ UNCHANGED <<evars, xvars, dvars, cvars, mvars>>

\* resources.py:98-117, 121-127: a step before the file is written raises
\* (Image.open, a decode error); the permit is released and the handler
\* answers
TGenFail(r) ==
    /\ tpc[r] = "gen"
    /\ permits' = permits + 1
    /\ Finish(r, FailureResp)
    /\ UNCHANGED <<treq, srcM, thumb, defaultImg>>
    /\ UNCHANGED <<evars, xvars, dvars, cvars, mvars>>

\* resources.py:98-117: img.save opens the cache file for writing
TSaveBegin(r) ==
    /\ tpc[r] = "gen"
    /\ \E t \in WriteTimes :
          thumb' = [thumb EXCEPT ![ThumbKey(treq[r])] =
                        [st |-> "partial", m |-> t, of |-> ImageOf(treq[r])]]
    /\ tpc' = [tpc EXCEPT ![r] = "save"]
    /\ UNCHANGED <<treq, tout, permits, srcM, defaultImg>>
    /\ UNCHANGED <<evars, xvars, dvars, cvars, mvars>>

\* resources.py:117, 121-127: the write raises; the file stays as it is
TSaveFail(r) ==
    /\ tpc[r] = "save"
    /\ permits' = permits + 1
    /\ Finish(r, FailureResp)
    /\ UNCHANGED <<treq, srcM, thumb, defaultImg>>
    /\ UNCHANGED <<evars, xvars, dvars, cvars, mvars>>

\* resources.py:117-119: the write completes, the permit is released and the
\* file is sent
TSaveEnd(r) ==
    /\ tpc[r] = "save"
    /\ \E t \in WriteTimes :
          thumb' = [thumb EXCEPT ![ThumbKey(treq[r])] =
                        [st |-> "full", m |-> t, of |-> ImageOf(treq[r])]]
    /\ permits' = permits + 1
    /\ Finish(r, [status |-> "thumb", via |-> "generated"])
    /\ UNCHANGED <<treq, srcM, defaultImg>>
    /\ UNCHANGED <<evars, xvars, dvars, cvars, mvars>>

\* the environment replaces a source image
TouchSource(i) ==
    /\ srcM[i] >= 0
    /\ \E t \in WriteTimes : t > srcM[i] /\ srcM' = [srcM EXCEPT ![i] = t]
    /\ UNCHANGED <<tpc, treq, tout, permits, thumb, defaultImg>>
    /\ UNCHANGED <<evars, xvars, dvars, cvars, mvars>>

\* the steps of the request thread r
RequestStep(r) ==
    \/ TNoSidecar(r)
    \/ TMissing(r)
    \/ THit(r)
    \/ TMiss(r)
    \/ TAcquire(r)
    \/ TRecheckHit(r)
    \/ TRecheckMiss(r)
    \/ TGenFail(r)
    \/ TSaveBegin(r)
    \/ TSaveFail(r)
    \/ TSaveEnd(r)

ThumbNext ==
    \/ \E r \in Requests :
          \/ TNoSidecar(r)
          \/ TMissing(r)
          \/ THit(r)
          \/ TMiss(r)
          \/ TAcquire(r)
          \/ TRecheckHit(r)
          \/ TRecheckMiss(r)
          \/ TGenFail(r)
          \/ TSaveBegin(r)
          \/ TSaveFail(r)
          \/ TSaveEnd(r)
    \/ \E i \in Images : TouchSource(i)

----------------------------------------------------------------------------
(* deterministic_sort, normalize_card_v3 (core/utils/data.py) and           *)
(* calculate_data_hash (core/utils/hash.py).  A JSON value is [t, v]: t is *)
(* "null", "str", "list" or "dict"; v is the string, the sequence of the    *)
(* elements, or, for a dict, the sequence of its <<key, value>> pairs in    *)
(* insertion order (a Python dict keeps it, json.dumps writes it).          *)

MaxKeys == 3   \* root keys of an enumerated document

JNull      == [t |-> "null", v |-> ""]
JStr(s)    == [t |-> "str", v |-> s]
JList(l)   == [t |-> "list", v |-> l]
JDict(d)   == [t |-> "dict", v |-> d]

\* k in d
HasKey(d, k) == \E i \in 1..Len(d) : d[i][1] = k

\* d[k]
ValAt(d, k) == d[CHOOSE i \in 1..Len(d) : d[i][1] = k][2]

\* d[k] = v: an existing key keeps its place, a new one goes last
SetKey(d, k, v) ==
    IF HasKey(d, k)
    THEN [i \in 1..Len(d) |-> IF d[i][1] = k THEN <<k, v>> ELSE d[i]]
    ELSE Append(d, <<k, v>>)

\* del d[k] for each k of ks that is in d
RECURSIVE DelKeys(_, _)
DelKeys(d, ks) ==
    IF d = <<>> THEN <<>>
    ELSE (IF Head(d)[1] \in ks THEN <<>> ELSE <<Head(d)>>) \o DelKeys(Tail(d), ks)

\* Python ==: dicts are equal whatever their key order, lists elementwise
RECURSIVE SameValue(_, _)
SameValue(a, b) ==
    /\ a.t = b.t
    /\ CASE a.t = "dict" ->
              /\ Len(a.v) = Len(b.v)
              /\ \A i \in 1..Len(a.v) :
                    /\ HasKey(b.v, a.v[i][1])
                    /\ SameValue(a.v[i][2], ValAt(b.v, a.v[i][1]))
         [] a.t = "list" ->
              /\ Len(a.v) = Len(b.v)
              /\ \A i \in 1..Len(a.v) : SameValue(a.v[i], b.v[i])
         [] OTHER -> a.v = b.v

\* data.py:10-14
root_priority ==
    <<"name", "description", "personality", "scenario", "first_mes",
      "mes_example", "creatorcomment", "avatar", "talkativeness", "fav", "tags",
      "spec", "spec_version", "data", "create_date">>

\* data.py:17-22
data_priority ==
    <<"name", "description", "personality", "scenario", "first_mes",
      "mes_example", "creator_notes", "system_prompt",
      "post_history_instructions", "tags", "creator", "character_version",
      "alternate_greetings", "extensions", "group_only_greetings",
      "character_book">>

\* data.py:26-38
extension_priority ==
    <<"id", "scriptName", "name", "enabled", "disabled", "findRegex",
      "replaceString", "trimStrings", "placement", "runOnEdit", "markdownOnly",
      "promptOnly", "minDepth", "maxDepth", "substituteRegex", "type", "content",
      "info", "button", "data", "top", "bottom", "left", "right">>

\* data.py:43-48: the keys of ks in order, each once
RECURSIVE Dedupe(_, _)
Dedupe(ks, seen) ==
    IF ks = <<>> THEN <<>>
    ELSE IF Head(ks) \in seen THEN Dedupe(Tail(ks), seen)
         ELSE <<Head(ks)>> \o Dedupe(Tail(ks), seen \cup {Head(ks)})

all_priority == Dedupe(root_priority \o data_priority \o extension_priority, {})

\* sorted(): the keys of the documents of this model that are in no priority
\* list, in lexical order
LexOrder == <<"entries", "regex_scripts", "zeta">>

RECURSIVE deterministic_sort(_)
RECURSIVE SortedItems(_, _)

\* SortedItems leaving the values as they are
SortedItemsShallow(d, order) ==
    IF order = <<>> THEN <<>>
    ELSE (IF HasKey(d, Head(order))
          THEN <<<<Head(order), ValAt(d, Head(order))>>>>
          ELSE <<>>)
         \o SortedItems(d, Tail(order))

\* data.py:51-58: the items of d whose keys are in order, in that order,
\* their values sorted
SortedItems(d, order) ==
    IF order = <<>> THEN <<>>
    ELSE (IF HasKey(d, Head(order))
          THEN <<<<Head(order), deterministic_sort(ValAt(d, Head(order)))>>>>
          ELSE <<>>)
         \o SortedItems(d, Tail(order))

\* data.py:3-65
deterministic_sort(obj) ==
    CASE obj.t = "dict" ->
           JDict(SortedItems(obj.v, all_priority) \o SortedItems(obj.v, LexOrder))
      [] obj.t = "list" ->
           JList([i \in 1..Len(obj.v) |-> deterministic_sort(obj.v[i])])
      [] OTHER -> obj

\* data.py:94-98
core_fields ==
    <<"name", "description", "personality", "scenario", "first_mes",
      "mes_example", "creator_notes", "system_prompt",
      "post_history_instructions", "tags", "creator", "character_version",
      "alternate_greetings", "extensions", "character_book">>

\* data.py:102-114: the root key a core field is read from
RootKey(field) == IF field = "creator_notes" THEN "creatorcomment" ELSE field

\* data.py:108-119
RootVal(root, field) ==
    IF HasKey(root, RootKey(field)) THEN ValAt(root, RootKey(field))
    ELSE IF HasKey(root, field) THEN ValAt(root, field)
    ELSE JNull

\* data.py:106-125: data_block after the loop over the fields
RECURSIVE SyncCore(_, _, _)
SyncCore(root, data_block, fields) ==
    IF fields = <<>> THEN data_block
    ELSE LET f == Head(fields)
             db == IF ~HasKey(data_block, f) /\ RootVal(root, f).t # "null"
                   THEN SetKey(data_block, f, RootVal(root, f))
                   ELSE data_block
         IN SyncCore(root, db, Tail(fields))

\* data.py:130-143: data_block and the root after a root-only key is moved
MoveIn(data_block, root, k) ==
    IF HasKey(root, k) /\ ~HasKey(data_block, k)
    THEN SetKey(data_block, k, ValAt(root, k))
    ELSE data_block

\* WrapData migrating again a document that has a data dict
WrapDataAlways(c0) ==
    SetKey(c0, "data", JDict(DelKeys(c0, {"spec", "spec_version", "data"})))

\* data.py:76-82: the root after the data node is made sure of
WrapData(c0) ==
    IF ~HasKey(c0, "data") \/ ValAt(c0, "data").t # "dict"
    THEN SetKey(c0, "data", JDict(DelKeys(c0, {"spec", "spec_version", "data"})))
    ELSE c0

\* data.py:88-89: the version header is set
NormHeader(c1) ==
    SetKey(SetKey(c1, "spec", JStr("chara_card_v3")),
           "spec_version", JStr("3.0"))

\* data.py:91-125: the root and data_block after the core fields are synced
NormSync(c2) ==
    [root |-> c2, data |-> SyncCore(c2, ValAt(c2, "data").v, core_fields)]

\* NormMove leaving the root copy where it is
NormMoveKeepRoot(st, k) ==
    [root |-> st.root, data |-> MoveIn(st.data, st.root, k)]

\* data.py:130-143: key k is moved into data_block and deleted at the root
NormMove(st, k) ==
    [root |-> DelKeys(st.root, {k}), data |-> MoveIn(st.data, st.root, k)]

\* data.py:151-155: data_block is cleaned; card_data holds it under data
NormClean(st) ==
    JDict(SetKey(st.root, "data",
                 JDict(DelKeys(st.data, {"spec", "spec_version", "data"}))))

\* data.py:67-155
normalize_card_v3(card_data) ==
    IF card_data.t # "dict" THEN card_data
    ELSE NormClean(
           NormMove(
             NormMove(NormSync(NormHeader(WrapData(card_data.v))),
                      "character_book"),
             "extensions"))

\* json.dumps(..., separators=(',', ':')): the tokens of the text
RECURSIVE Dumps(_)
RECURSIVE DumpItems(_, _)
DumpItems(items, isDict) ==
    IF items = <<>> THEN <<>>
    ELSE (IF isDict
          THEN <<"\"", Head(items)[1], "\"", ":">> \o Dumps(Head(items)[2])
          ELSE Dumps(Head(items)))
         \o (IF Len(items) > 1 THEN <<",">> ELSE <<>>)
         \o DumpItems(Tail(items), isDict)

Dumps(x) ==
    CASE x.t = "dict" -> <<"{">> \o DumpItems(x.v, TRUE) \o <<"}">>
      [] x.t = "list" -> <<"[">> \o DumpItems(x.v, FALSE) \o <<"]">>
      [] x.t = "str"  -> <<"\"", x.v, "\"">>
      [] OTHER        -> <<"null">>

\* hash.py:45: not data
Falsy(x) ==
    \/ x.t = "null"
    \/ x.t \in {"dict", "list"} /\ x.v = <<>>
    \/ x.t = "str" /\ x.v = ""

\* hash.py:48: `k in data` (a key of a dict, an element of a list; of the
\* strings of this model only k itself holds k)
InData(k, x) ==
    CASE x.t = "dict" -> HasKey(x.v, k)
      [] x.t = "list" -> \E i \in 1..Len(x.v) : x.v[i].t = "str" /\ x.v[i].v = k
      [] OTHER        -> x.v = k

\* calculate_data_hash hashing the document as it is
HashUnsorted(data) ==
    IF Falsy(data) THEN <<>>
    ELSE Dumps(IF InData("name", data) \/ InData("data", data)
               THEN normalize_card_v3(data) ELSE data)

\* hash.py:40-56; md5 is taken to be injective, the fingerprint is the text
\* that is hashed
calculate_data_hash(data) ==
    IF Falsy(data) THEN <<>>
    ELSE Dumps(deterministic_sort(
                 IF InData("name", data) \/ InData("data", data)
                 THEN normalize_card_v3(data) ELSE data))

----------------------------------------------------------------------------
(* The documents the functions are applied to *)

BookDoc ==
    JDict(<<<<"zeta", JStr("z")>>, <<"entries", JList(<<>>)>>, <<"name", JStr("b")>>>>)
ExtDoc ==
    JDict(<<<<"regex_scripts",
              JList(<<JDict(<<<<"scriptName", JStr("s")>>, <<"id", JStr("i")>>>>)>>)>>>>)

RootKeys ==
    {"name", "creatorcomment", "creator_notes", "character_book", "extensions",
     "data", "spec"}

\* the data nodes of the enumerated documents (an empty one comes from a
\* legacy document without fields)
DataDicts ==
    { <<<<"name", JStr("m")>>>>,
      <<<<"zeta", JStr("z")>>, <<"name", JStr("n")>>>>,
      <<<<"spec", JStr("chara_card_v2")>>, <<"data", JStr("x")>>,
        <<"creator_notes", JStr("k2")>>>>,
      <<<<"character_book", JNull>>>> }

\* the values a root key takes
ValuesOf(k) ==
    CASE k = "name"           -> {JStr("n")}
      [] k = "creatorcomment" -> {JStr("c"), JNull}
      [] k = "creator_notes"  -> {JStr("k")}
      [] k = "character_book" -> {BookDoc, JNull}
      [] k = "extensions"     -> {ExtDoc}
      [] k = "data"           -> {JStr("x")} \cup {JDict(d) : d \in DataDicts}
      [] k = "spec"           -> {JStr("chara_card_v2")}
      [] OTHER                -> {JStr("z")}

\* the dicts of exactly n root keys, in every key order
RECURSIVE DictsOf(_)
DictsOf(n) ==
    IF n = 0 THEN {<<>>}
    ELSE UNION { UNION { {Append(d, <<k, v>>) : v \in ValuesOf(k)} :
                         k \in {x \in RootKeys : ~HasKey(d, x)} } :
                 d \in DictsOf(n - 1) }

Docs ==
    {JDict(d) : d \in UNION {DictsOf(n) : n \in 0..MaxKeys}}
    \cup {JNull, JList(<<JStr("name")>>)}

\* x with the key order of every dict in it reversed
RECURSIVE DeepReverse(_)
DeepReverse(x) ==
    CASE x.t = "dict" ->
           JDict([i \in 1..Len(x.v) |->
                    <<x.v[Len(x.v) + 1 - i][1], DeepReverse(x.v[Len(x.v) + 1 - i][2])>>])
      [] x.t = "list" -> JList([i \in 1..Len(x.v) |-> DeepReverse(x.v[i])])
      [] OTHER -> x

\* the fields of a dict document are at its root
Legacy(x) == x.t = "dict" /\ ~HasKey(x.v, "data") /\ ~HasKey(x.v, "spec")

\* the versioned-schema document with the fields of x under data
Versioned(x) ==
    JDict(<<<<"spec", JStr("chara_card_v3")>>, <<"spec_version", JStr("3.0")>>,
            <<"data", x>>>>)

\* the documents a document is compared with: itself in another key order,
\* its versioned-schema equivalent, and what normalize_card_v3 makes of it,
\* in another key order
Related(x) ==
    IF x.t # "dict" THEN {x}
    ELSE {DeepReverse(x), DeepReverse(normalize_card_v3(x))}
         \cup (IF Legacy(x) THEN {Versioned(x)} ELSE {})

NoResults ==
    [n1 |-> JNull, n2 |-> JNull, nn1 |-> JNull, s1 |-> JNull, s2 |-> JNull,
     h1 |-> <<>>, h2 |-> <<>>]

DataInit ==
    /\ doc \in Docs
    /\ doc2 \in Related(doc)
    /\ dres = NoResults
    /\ dpc = "start"

DataIdle ==
    /\ doc = Unused
    /\ doc2 = Unused
    /\ dres = Unused
    /\ dpc = "idle"

\* normalize_card_v3 applied to each document
ApplyNormalize ==
    /\ dpc = "start"
    /\ dres' = [dres EXCEPT !.n1 = normalize_card_v3(doc),
                            !.n2 = normalize_card_v3(doc2)]
    /\ dpc' = "normalized"
    /\ UNCHANGED <<doc, doc2>>
    /\ UNCHANGED <<evars, xvars, tvars, cvars, mvars>>

\* normalize_card_v3 applied to its own result
ApplyNormalizeAgain ==
    /\ dpc = "normalized"
    /\ dres' = [dres EXCEPT !.nn1 = normalize_card_v3(dres.n1)]
    /\ dpc' = "renormalized"
    /\ UNCHANGED <<doc, doc2>>
    /\ UNCHANGED <<evars, xvars, tvars, cvars, mvars>>

\* deterministic_sort applied to each document
ApplySort ==
    /\ dpc = "renormalized"
    /\ dres' = [dres EXCEPT !.s1 = deterministic_sort(doc),
                            !.s2 = deterministic_sort(doc2)]
    /\ dpc' = "sorted"
    /\ UNCHANGED <<doc, doc2>>
    /\ UNCHANGED <<evars, xvars, tvars, cvars, mvars>>

\* _calculate_data_hash applied to each document
ApplyHash ==
    /\ dpc = "sorted"
    /\ dres' = [dres EXCEPT !.h1 = calculate_data_hash(doc),
                            !.h2 = calculate_data_hash(doc2)]
    /\ dpc' = "hashed"
    /\ UNCHANGED <<doc, doc2>>
    /\ UNCHANGED <<evars, xvars, tvars, cvars, mvars>>

DataNext ==
    \/ ApplyNormalize
    \/ ApplyNormalizeAgain
    \/ ApplySort
    \/ ApplyHash

----------------------------------------------------------------------------
(* _check_condition applied to one value *)

MaxItems == 2   \* elements of a list value, items of a comma-split target

CondItems == {<<"a">>, <<"A">>, <<"b">>}

\* ",".join(parts), with a blank after the comma when spaced
RECURSIVE CommaJoin(_, _)
CommaJoin(parts, spaced) ==
    IF parts = <<>> THEN <<>>
    ELSE IF Len(parts) = 1 THEN Head(parts)
    ELSE Head(parts) \o (IF spaced THEN <<",", " ">> ELSE <<",">>)
         \o CommaJoin(Tail(parts), spaced)

\* the values a field resolves to
CondValues ==
    {VNull, VStr(<<>>), VStr(<<"a">>), VStr(<<"7">>), VNum(0), VNum(7),
     VBool(FALSE)}
    \cup {VList(l) : l \in SeqsUpTo(CondItems, MaxItems)}

\* the `value` of a condition: item lists written with commas, a number,
\* null, a pattern that does not compile
CondTargets ==
    {VNull, VNum(7), VStr(<<>>), VStr(<<"(">>), VStr(<<"7">>)}
    \cup {VStr(CommaJoin(l, sp)) :
             l \in SeqsUpTo(CondItems, MaxItems) \ {<<>>}, sp \in BOOLEAN}

\* an operator _check_condition does not know (engine.py:161)
UnknownOperator == "starts_with"

CondOperators ==
    {OP_EQ, OP_NEQ, OP_CONTAINS, OP_NOT_CONTAINS, OP_REGEX, OP_EXISTS,
     OP_NOT_EXISTS, OP_GT, OP_LT, OP_TRUE, OP_FALSE, UnknownOperator}

CondInit ==
    /\ cin \in [value : CondValues, operator : CondOperators,
                target : CondTargets, case_sensitive : BOOLEAN]
    /\ cout = [done |-> FALSE, res |-> FALSE]

CondIdle ==
    /\ cin = Unused
    /\ cout = Unused

\* self._check_condition(value, operator, target_value, case_sensitive)
ApplyCheck ==
    /\ ~cout.done
    /\ cout' = [done |-> TRUE,
                res  |-> CheckCondition(cin.value, cin.operator, cin.target,
                                        cin.case_sensitive)]
    /\ UNCHANGED cin
    /\ UNCHANGED <<evars, xvars, tvars, dvars, mvars>>

CondNext == ApplyCheck

----------------------------------------------------------------------------
(* RuleManager (core/automation/manager.py).  The rule store is the set of *)
(* the files of RULES_DIR: a file is [id, name, body], id the filename     *)
(* without ".json", name and body what the saved data holds (meta.name,    *)
(* the rules).  caseFold says whether the filesystem compares filenames    *)
(* without regard to case.  The configuration store keeps the active       *)
(* ruleset pointer.                                                        *)

MaxOps == 3   \* save and delete calls of one behaviour

Untitled        == <<"U", "n", "t", "i", "t", "l", "e", "d">>
UntitledRuleset == Untitled \o <<"_", "R", "u", "l", "e", "s", "e", "t">>

\* the characters re.sub(r'[\\/*?:"<>|]', '_', ...) replaces
IllegalChars == {"\\", "/", "*", "?", ":", "\"", "<", ">", "|"}

\* RuleManager._sanitize_filename
sanitize_filename(name) ==
    LET stripped == Strip(name)
        subbed   == [i \in 1..Len(stripped) |->
                        IF stripped[i] \in IllegalChars THEN "_"
                        ELSE stripped[i]]
    IN IF subbed # <<>> THEN subbed ELSE UntitledRuleset

\* os.path.exists(os.path.join(RULES_DIR, f"{id}.json"))
Exists(fs, id, fold) ==
    \E f \in fs : IF fold THEN Lower(f.id) = Lower(id) ELSE f.id = id

\* the files of fs that the path of id names
FilesAt(fs, id, fold) ==
    {f \in fs : IF fold THEN Lower(f.id) = Lower(id) ELSE f.id = id}

\* f"{base_filename}_{counter}"
Suffixed(base, counter) == base \o <<"_">> \o NatStr(counter)

\* a variant that takes the first suffix without looking at the store
FreeIdFirstSuffix(fs, base, fold) ==
    IF ~Exists(fs, base, fold) THEN base ELSE Suffixed(base, 1)

\* manager.py:83-87: the id the while loop ends with.  One of the
\* Cardinality(fs) + 1 first suffixes is free.
FreeId(fs, base, fold) ==
    IF ~Exists(fs, base, fold) THEN base
    ELSE LET free == {n \in 1..(Cardinality(fs) + 1) :
                         ~Exists(fs, Suffixed(base, n), fold)}
         IN Suffixed(base, CHOOSE n \in free : \A k \in free : n <= k)

\* bool(old_ruleset_id)
Given(old) == old.has /\ old.v # <<>>

\* manager.py:70-87: new_id
NewId(fs, old, name, fold) ==
    LET meta_name     == GetOr(name, Untitled)
        base_filename == sanitize_filename(meta_name)
    IN IF Given(old) /\ Lower(old.v) = Lower(base_filename) THEN old.v
       ELSE FreeId(fs, base_filename, fold)

\* manager.py:90-97: the files after the old file is removed; os.remove
\* may fail, which is logged and ignored
AfterRemove(fs, old, new_id, fold, rmOk) ==
    IF Given(old) /\ old.v # new_id /\ Exists(fs, old.v, fold) /\ rmOk
    THEN fs \ FilesAt(fs, old.v, fold) ELSE fs

\* manager.py:101-105: open(save_path, 'w') and json.dump.  A file the path
\* already names keeps its filename and gets the new content.
AfterWrite(fs, new_id, name, body, fold) ==
    LET at    == FilesAt(fs, new_id, fold)
        fname == IF at = {} THEN new_id ELSE (CHOOSE f \in at : TRUE).id
    IN (fs \ at) \cup {[id |-> fname, name |-> name, body |-> body]}

\* a variant that moves the pointer whenever an old id is given
PointerAlways(ptr, old, new_id) == IF Given(old) THEN Some(new_id) ELSE ptr

\* manager.py:107-113: cfg['active_automation_ruleset'] after the call
PointerAfter(ptr, old, new_id) ==
    IF Given(old) /\ old.v # new_id /\ ptr = Some(old.v)
    THEN Some(new_id) ELSE ptr

\* the display names of the saved data; NoStr is data without meta.name
StoreNames ==
    {NoStr, Some(<<"a">>), Some(<<"A">>), Some(<<"a", "_", "1">>),
     Some(<<" ", "b", "?">>)}

Ids(fs) == {f.id : f \in fs}

StoreInit ==
    /\ files = {}
    /\ active_ruleset = NoId
    /\ caseFold \in BOOLEAN
    /\ mlast = [op |-> "none"]
    /\ mn = 0

StoreIdle ==
    /\ files = {}
    /\ active_ruleset = NoId
    /\ caseFold = FALSE
    /\ mlast = Unused
    /\ mn = 0

\* RuleManager.save_ruleset(old, data): data holds meta.name = name and
\* the rules of the mn-th call
Save(old, name, rmOk) ==
    \E new_id \in {NewId(files, old, name, caseFold)} :
       /\ files' = AfterWrite(AfterRemove(files, old, new_id, caseFold, rmOk),
                              new_id, name, mn, caseFold)
       /\ active_ruleset' = PointerAfter(active_ruleset, old, new_id)
       /\ mlast' = [op |-> "save", old |-> old, name |-> name,
                    body |-> mn, ret |-> new_id, ptr |-> active_ruleset,
                    before |-> files]
       /\ mn' = mn + 1
       /\ UNCHANGED caseFold
       /\ UNCHANGED <<evars, xvars, tvars, dvars, cvars>>

\* save_ruleset(None, data)
SaveNew ==
    \E name \in StoreNames :
       /\ mn < MaxOps
       /\ Save(NoId, name, TRUE)

\* save_ruleset(old, data) for a stored ruleset
SaveExisting ==
    \E old \in Ids(files), name \in StoreNames, rmOk \in BOOLEAN :
       /\ mn < MaxOps
       /\ rmOk \/ old # NewId(files, Some(old), name, caseFold)
       /\ Save(Some(old), name, rmOk)

\* RuleManager.delete_ruleset(ruleset_id)
Delete ==
    \E id \in Ids(files), rmOk \in BOOLEAN :
       /\ mn < MaxOps
       /\ mn' = mn + 1
       /\ files' = IF rmOk THEN files \ FilesAt(files, id, caseFold)
                           ELSE files
       /\ mlast' = [op |-> "delete", old |-> Some(id), ret |-> rmOk,
                    ptr |-> active_ruleset, before |-> files]
       /\ UNCHANGED <<active_ruleset, caseFold>>
       /\ UNCHANGED <<evars, xvars, tvars, dvars, cvars>>

\* the settings page makes a stored ruleset the active one, or none, between
\* two calls of the rule manager
SetActive ==
    \E p \in {NoId} \cup {Some(id) : id \in Ids(files)} :
       /\ mn < MaxOps
       /\ p # active_ruleset
       /\ mlast.op # "activate"
       /\ active_ruleset' = p
       /\ mlast' = [op |-> "activate"]
       /\ UNCHANGED <<files, caseFold, mn>>
       /\ UNCHANGED <<evars, xvars, tvars, dvars, cvars>>

StoreNext == SaveNew \/ SaveExisting \/ Delete \/ SetActive

----------------------------------------------------------------------------
(* Specifications *)

InitEngine == EngineInit /\ ExecIdle /\ ThumbIdle /\ DataIdle /\ CondIdle /\ StoreIdle
NextEngine == EngineNext
SpecEngine == InitEngine /\ [][NextEngine]_vars

InitExec == EngineIdle /\ ExecInit /\ ThumbIdle /\ DataIdle /\ CondIdle /\ StoreIdle
NextExec == ExecNext
SpecExec == InitExec /\ [][NextExec]_vars

InitThumb == EngineIdle /\ ExecIdle /\ ThumbInit /\ DataIdle /\ CondIdle /\ StoreIdle
NextThumb == ThumbNext
SpecThumb == InitThumb /\ [][NextThumb]_vars

\* a herd: every request asks for a.png, which is as new as a file can be,
\* and nothing is cached; the first request may also ask for a file without
\* an image
HerdInit ==
    /\ ThumbInitWith(Requests,
                     {f \in [Requests -> Names] :
                         /\ f[1] \in {NameA, NameGone, NameAlone}
                         /\ \A r \in Requests : r > 1 => f[r] = NameA})
    /\ srcM[<<"", "a">>] = MaxTime
    /\ srcM[<<"A", "a">>] = 0
    /\ \A k \in Keys : thumb[k] = NoThumb

InitHerd == EngineIdle /\ ExecIdle /\ HerdInit /\ DataIdle /\ CondIdle /\ StoreIdle
SpecHerd == InitHerd /\ [][NextThumb]_vars

\* a queue at the semaphore: nothing is cached, a.png is as new as a file can
\* be and the default image exists; requests 2..HerdSize found a.png
\* uncached, all but the last of them have acquired a permit and the last
\* one is about to; request 1 is about to start
QueueInit ==
    /\ srcM = [i \in Images |->
                  IF i = <<"", "a">> THEN MaxTime
                  ELSE IF i = <<"A", "a">> THEN 0 ELSE -1]
    /\ thumb = [k \in Keys |-> NoThumb]
    /\ defaultImg = TRUE
    /\ permits = ThumbPermits - (HerdSize - 2)
    /\ treq \in {f \in [Requests -> Names] :
                    /\ f[1] \in {NameA, NameGone, NameAlone}
                    /\ \A r \in Requests : r > 1 => f[r] = NameA}
    /\ tpc = [r \in Requests |->
                 IF r = 1 THEN "start"
                 ELSE IF r = HerdSize THEN "wait" ELSE "recheck"]
    /\ tout = [r \in Requests |-> NoResp]

\* every request thread is scheduled again and again: a thread that can take
\* a step is not left out for ever.  The environment (TouchSource) is under
\* no obligation.
ThreadsFair == \A r \in Requests : WF_vars(RequestStep(r))

InitQueue ==
    EngineIdle /\ ExecIdle /\ QueueInit /\ DataIdle /\ CondIdle /\ StoreIdle
SpecQueueFair == InitQueue /\ [][NextThumb]_vars /\ ThreadsFair

InitCond ==
    EngineIdle /\ ExecIdle /\ ThumbIdle /\ DataIdle /\ CondInit /\ StoreIdle
NextCond == CondNext
SpecCond == InitCond /\ [][NextCond]_vars

InitStore ==
    EngineIdle /\ ExecIdle /\ ThumbIdle /\ DataIdle /\ CondIdle /\ StoreInit
NextStore == StoreNext
SpecStore == InitStore /\ [][NextStore]_vars

InitData == EngineIdle /\ ExecIdle /\ ThumbIdle /\ DataInit /\ CondIdle /\ StoreIdle
NextData == DataNext
SpecData == InitData /\ [][NextData]_vars

----------------------------------------------------------------------------
(* Properties of AutomationEngine.evaluate *)

Rules == ruleset.rules

Stops(rule) == GetOr(rule.stop_on_match, FALSE)

\* the rule is enabled, has groups after the legacy wrapping, and
\* is_rule_match is True for it on the card
Matches(cd, rule) ==
    /\ Enabled(rule)
    /\ RuleGroups(rule) # <<>>
    /\ ~RuleRaises(cd, rule)
    /\ RuleMatch(cd, rule)

\* the actions of the rules with the given indexes, in that order
RECURSIVE ActionsOf(_)
ActionsOf(idxs) ==
    IF idxs = <<>> THEN <<>>
    ELSE GetOr(Rules[Head(idxs)].actions, <<>>) \o ActionsOf(Tail(idxs))

\* the indexes of 1..k, in increasing order, of the rules that match
RECURSIVE MatchingUpTo(_)
MatchingUpTo(k) ==
    IF k = 0 THEN <<>>
    ELSE MatchingUpTo(k - 1) \o (IF Matches(card, Rules[k]) THEN <<k>> ELSE <<>>)

\* the for loop takes the rules up in order, one after the other
VisitedInOrder == \A i \in 1..Len(visited) : visited[i] = i

\* C1: once an enabled rule with stop_on_match has matched, evaluate has
\* returned, that rule is the last one the loop took up (no later rule is
\* evaluated), and the plan holds the actions of the matching rules up to
\* and including it.
C1_StopOnMatch ==
    /\ VisitedInOrder
    /\ \A i \in 1..Len(visited) :
          (epc # "start" /\ Matches(card, Rules[i]) /\ Stops(Rules[i])) =>
             /\ epc = "returned"
             /\ i = Len(visited)
             /\ plan = ActionsOf(MatchingUpTo(i))

\* C1 witness: a stop_on_match rule matched and a later rule that matches
\* too, with actions of its own, was left out of the returned plan
C1_Witness ==
    /\ epc = "returned"
    /\ Len(Rules) = 2
    /\ Matches(card, Rules[1]) /\ Stops(Rules[1])
    /\ Matches(card, Rules[2]) /\ GetOr(Rules[2].actions, <<>>) # <<>>
    /\ plan = GetOr(Rules[1].actions, <<>>) /\ plan # <<>>
    /\ visited = <<1>>

\* C2: the plan is the concatenation, in ruleset order, of the action lists
\* (each in declared order) of the rules that matched; these are exactly
\* the rules taken up by the loop that are enabled and match, so disabled
\* and non-matching rules contribute nothing.
C2_PlanIsConcatenation ==
    epc \in {"loop", "returned"} =>
       /\ matched = MatchingUpTo(Len(visited))
       /\ plan = ActionsOf(matched)
       /\ epc = "returned" /\ (matched = <<>> \/ ~Stops(Rules[matched[Len(matched)]]))
             => Len(visited) = Len(Rules)

\* C2 witness: two rules matched, the first with two actions, and the
\* plan holds the actions of the first in declared order, then those of
\* the second
C2_Witness ==
    /\ epc = "returned"
    /\ Len(Rules) = 2 /\ matched = <<1, 2>>
    /\ GetOr(Rules[1].actions, <<>>) = SubSeq(AllActions, 1, 2)
    /\ GetOr(Rules[2].actions, <<>>) = SubSeq(AllActions, 1, 1)
    /\ plan = <<AllActions[1], AllActions[2], AllActions[1]>>

EmptyGroups(rule) == rule.groups.has /\ rule.groups.v = <<>>

\* C3 as claimed: a rule whose groups list is empty never matches, whatever
\* its other fields are.
C3_Original ==
    \A k \in 1..Len(matched) : ~EmptyGroups(Rules[matched[k]])

\* C3 as amended: a rule whose groups list is empty and whose legacy
\* conditions list is missing or empty never matches and contributes no
\* action, whatever its logic, actions and stop_on_match are; with legacy
\* conditions it matches exactly when all of them are true.
C3_EmptyGroups ==
    \A k \in 1..Len(visited) :
       EmptyGroups(Rules[k]) =>
          LET conds == GetOr(Rules[k].conditions, <<>>)
          IN /\ conds = <<>> => (\A j \in 1..Len(matched) : matched[j] # k)
             /\ (conds # <<>> /\ Enabled(Rules[k]) /\ epc # "raised") =>
                   ((\E j \in 1..Len(matched) : matched[j] = k)
                      <=> \A c \in 1..Len(conds) : CondResult(card, conds[c]))
             /\ Len(Rules) = 1 /\ conds = <<>> => plan = <<>>

\* C3 witness: evaluate returned an empty plan for a rule with groups = []
\* and no legacy conditions, with logic AND and an action
C3_Witness ==
    /\ epc = "returned"
    /\ Len(Rules) = 1 /\ visited = <<1>>
    /\ EmptyGroups(Rules[1])
    /\ GetOr(Rules[1].conditions, <<>>) = <<>>
    /\ Rules[1].logic = Some(<<"A", "N", "D">>)
    /\ GetOr(Rules[1].actions, <<>>) # <<>>
    /\ plan = <<>>

NoConditions(group) == GetOr(group.conditions, <<>>) = <<>>

\* C4: a group without conditions gives the group result false under AND
\* and under OR, and a rule all of whose groups are without conditions
\* never matches.
C4_EmptyGroupIsFalse ==
    \A k \in 1..Len(Rules) :
       LET gs == GetOr(Rules[k].groups, <<>>)
       IN /\ \A g \in 1..Len(gs) :
                NoConditions(gs[g]) => ~GroupMatch(card, gs[g])
          /\ (gs # <<>> /\ \A g \in 1..Len(gs) : NoConditions(gs[g])) =>
                \A j \in 1..Len(matched) : matched[j] # k

\* C4 witness: evaluate returned an empty plan for a rule with logic AND
\* whose two groups, one AND (the default) and one OR, have no conditions
C4_Witness ==
    /\ epc = "returned"
    /\ Len(Rules) = 1 /\ visited = <<1>>
    /\ Rules[1].logic = Some(<<"A", "N", "D">>)
    /\ LET gs == GetOr(Rules[1].groups, <<>>)
       IN /\ Len(gs) = 2
          /\ NoConditions(gs[1]) /\ ~gs[1].logic.has
          /\ NoConditions(gs[2]) /\ gs[2].logic = Some(<<"o", "r">>)
    /\ plan = <<>>

----------------------------------------------------------------------------
(* Properties of AutomationExecutor.apply_plan *)

\* C5: when the plan holds attribute changes and a move, the attribute call
\* is the first call and carries the original card id, the move call is the
\* second, and no call follows the move.
C5_AttrsBeforeMove ==
    (HasAttrs(xin.plan) /\ xin.plan.move.has) =>
       /\ \A i \in 1..Len(calls) :
             /\ calls[i].fn = "modify" =>
                   i = 1 /\ calls[i].id = xin.card_id
             /\ calls[i].fn = "move" =>
                   i = 2 /\ i = Len(calls) /\ calls[1].fn = "modify"
       /\ ExecDone => Len(calls) = 2

\* C5 witness: apply_plan has returned after a successful attribute change
\* and a successful move that changed the card id
C5_Witness ==
    /\ ExecDone
    /\ HasAttrs(xin.plan) /\ xin.plan.move.has
    /\ Len(calls) = 2 /\ calls[1].ok /\ calls[2].ok
    /\ calls[2].after.id # xin.card_id

\* C6: after a failed move, final_id is the card id apply_plan was called
\* with, moved_to is None, and the card still has the attributes the
\* attribute call gave it; after a successful move, final_id is the id the
\* move reported and moved_to is the target folder.
C6_MoveOutcome ==
    (ExecDone /\ xin.plan.move.has) =>
       LET mv == calls[Len(calls)]
       IN /\ Len(calls) >= 1 /\ mv.fn = "move"
          /\ ~mv.ok =>
                /\ result.final_id = Some(xin.card_id)
                /\ result.moved_to = NoId
                /\ \A i \in 1..Len(calls) :
                      (calls[i].fn = "modify" /\ calls[i].ok) =>
                         /\ store = calls[i].after
                         /\ result.tags_added = xin.plan.add_tags
                         /\ result.tags_removed = xin.plan.remove_tags
          /\ mv.ok =>
                /\ result.final_id = Some(mv.after.id)
                /\ result.moved_to = xin.plan.move

\* C6 witness: the attribute call changed the card, the move failed, and
\* apply_plan has returned
C6_Witness ==
    /\ ExecDone
    /\ Len(calls) = 2
    /\ calls[1].fn = "modify" /\ calls[1].ok
    /\ calls[2].fn = "move" /\ ~calls[2].ok
    /\ store # store0
    /\ result.final_id = Some(xin.card_id)

----------------------------------------------------------------------------
(* Properties of serve_thumbnail *)

KeyOf(r) == ThumbKey(treq[r])
SrcOf(r) == ImageOf(treq[r])

\* the requests that hold a permit
InGeneration == {r \in Requests : tpc[r] \in {"recheck", "gen", "save"}}

\* C7: a request that finds a cache entry whose mtime is greater than or
\* equal to the mtime of its source image answers with the cache entry in
\* that step: the permits and every cache file stay as they are.
C7_CacheHit ==
    [][\A r \in Requests :
          ( /\ tpc[r] = "start" /\ tpc'[r] # "start"
            /\ srcM[SrcOf(r)] >= 0
            /\ thumb[KeyOf(r)].st # "none"
            /\ thumb[KeyOf(r)].m >= srcM[SrcOf(r)] )
          => /\ tpc'[r] = "done"
             /\ tout'[r] = [status |-> "thumb", via |-> "check"]
             /\ permits' = permits
             /\ thumb' = thumb]_vars

\* C7 witness: a request was answered from a cache entry exactly as old as
\* its source while no request had taken a permit
C7_Witness ==
    \E r \in Requests :
       /\ tout[r] = [status |-> "thumb", via |-> "check"]
       /\ thumb[KeyOf(r)].st = "full"
       /\ thumb[KeyOf(r)].m = srcM[SrcOf(r)]
       /\ permits = ThumbPermits
       /\ \A q \in Requests \ {r} : tpc[q] \in {"off", "start"}

\* C8: at most 4 requests hold a permit at any time, and a request waiting
\* while 4 requests hold one keeps waiting in every step.
C8_AtMostFour ==
    /\ [](Cardinality(InGeneration) <= 4
          /\ permits = 4 - Cardinality(InGeneration))
    /\ [][\A r \in Requests :
             (tpc[r] = "wait" /\ Cardinality(InGeneration) = 4)
                => tpc'[r] = "wait"]_vars

\* C8 witness: 4 requests hold a permit and a fifth one waits
C8_Witness ==
    /\ Cardinality(InGeneration) = 4
    /\ \E r \in Requests : tpc[r] = "wait"
    /\ permits = 0

\* C9: a request that holds the permit and re-checks while a completely
\* written cache entry of its key is not older than its source answers with
\* that entry, writes no cache file and releases the permit.
C9_RecheckHit ==
    [][\A r \in Requests :
          ( /\ tpc[r] = "recheck" /\ tpc'[r] # "recheck"
            /\ thumb[KeyOf(r)].st = "full"
            /\ thumb[KeyOf(r)].m >= srcM[SrcOf(r)] )
          => /\ tpc'[r] = "done"
             /\ tout'[r] = [status |-> "thumb", via |-> "recheck"]
             /\ thumb' = thumb
             /\ permits' = permits + 1]_vars

\* C9 witness: of two requests for the same image that both found the cache
\* invalid, one generated the entry and the other was answered from it at
\* the re-check
C9_Witness ==
    \E r, q \in Requests :
       /\ r # q /\ treq[r] = treq[q]
       /\ tout[q] = [status |-> "thumb", via |-> "generated"]
       /\ tout[r] = [status |-> "thumb", via |-> "recheck"]
       /\ thumb[KeyOf(r)].st = "full"

\* C10 as claimed: a request whose generation failed answers with the
\* default image if it exists and with a not-found error (404) otherwise.
C10_Original ==
    \A r \in Requests :
       tout[r].via = "failed" =>
          tout[r].status = IF defaultImg THEN "default" ELSE "404"

\* C10 as amended: a request whose generation failed released its permit
\* and answers with the default image if it exists and with a server error
\* (500) otherwise; the not-found error (404) is the answer when the source
\* image or the sidecar image is missing and there is no default image.
C10_FailureFallback ==
    /\ [](\A r \in Requests :
             /\ tout[r].via = "failed" =>
                   tout[r].status = IF defaultImg THEN "default" ELSE "500"
             /\ tout[r].via \in {"missing", "nosidecar"} =>
                   tout[r].status = IF defaultImg THEN "default" ELSE "404")
    /\ [][\A r \in Requests :
             (tpc[r] \in {"gen", "save"} /\ tpc'[r] = "done"
                /\ tout'[r].via # "generated")
             => /\ tout'[r] = [status |-> IF defaultImg THEN "default" ELSE "500",
                               via |-> "failed"]
                /\ permits' = permits + 1]_vars

\* C10 witness: without a default image, one request failed while
\* generating and got the server error
C10_Witness ==
    /\ ~defaultImg
    /\ \E r \in Requests :
          /\ tpc[r] = "done"
          /\ tout[r] = [status |-> "500", via |-> "failed"]

\* C11: a request that is answered with the cache file at the validity check
\* (the first check or the re-check) is answered with a completely written
\* file: no request returns an entry that another request is still writing.
C11_AtomicWrite ==
    [][\A r \in Requests :
          ( /\ tpc[r] \in {"start", "recheck"} /\ tpc'[r] = "done"
            /\ tout'[r].status = "thumb" )
          => thumb[KeyOf(r)].st = "full"]_vars

----------------------------------------------------------------------------
(* Properties of normalize_card_v3, deterministic_sort and the fingerprint *)

\* a and b are the same value with the same key order in every dict
RECURSIVE Identical(_, _)
Identical(a, b) ==
    /\ a.t = b.t
    /\ CASE a.t = "dict" ->
              /\ Len(a.v) = Len(b.v)
              /\ \A i \in 1..Len(a.v) :
                    a.v[i][1] = b.v[i][1] /\ Identical(a.v[i][2], b.v[i][2])
         [] a.t = "list" ->
              /\ Len(a.v) = Len(b.v)
              /\ \A i \in 1..Len(a.v) : Identical(a.v[i], b.v[i])
         [] OTHER -> a.v = b.v

\* C12: normalize_card_v3 applied to its own result gives a document equal
\* to that result.
C12_Idempotent ==
    dpc \in {"renormalized", "sorted", "hashed"} => SameValue(dres.nn1, dres.n1)

\* C12 witness: a legacy document with a world book and a creator comment
\* was migrated to a different document, and normalising that again gave
\* the very same document
C12_Witness ==
    /\ dpc = "renormalized"
    /\ Legacy(doc)
    /\ HasKey(doc.v, "character_book") /\ HasKey(doc.v, "creatorcomment")
    /\ ~SameValue(dres.n1, doc)
    /\ ~HasKey(dres.n1.v, "character_book")
    /\ HasKey(ValAt(dres.n1.v, "data").v, "character_book")
    /\ Identical(dres.nn1, dres.n1)

\* the place of a key in the order of deterministic_sort
Rank(k) ==
    IF \E i \in 1..Len(all_priority) : all_priority[i] = k
    THEN CHOOSE i \in 1..Len(all_priority) : all_priority[i] = k
    ELSE Len(all_priority) + CHOOSE i \in 1..Len(LexOrder) : LexOrder[i] = k

\* the keys of every dict of x are in the order of deterministic_sort
RECURSIVE KeysInOrder(_)
KeysInOrder(x) ==
    CASE x.t = "dict" ->
           /\ \A i \in 1..(Len(x.v) - 1) : Rank(x.v[i][1]) < Rank(x.v[i + 1][1])
           /\ \A i \in 1..Len(x.v) : KeysInOrder(x.v[i][2])
      [] x.t = "list" -> \A i \in 1..Len(x.v) : KeysInOrder(x.v[i])
      [] OTHER -> TRUE

HashNormalizes(x) == ~Falsy(x) /\ (InData("name", x) \/ InData("data", x))

\* C13 as claimed: a legacy document (with a name) and the versioned
\* document that holds the same fields under data have the same
\* fingerprint.
C13_Original ==
    (dpc = "hashed" /\ Legacy(doc) /\ HasKey(doc.v, "name")
       /\ Identical(doc2, Versioned(doc)))
    => dres.h1 = dres.h2

\* C13 as amended: two documents with a name or data key whose normalised
\* forms are equal, key order aside, have the same fingerprint; so have a
\* legacy document and the versioned document normalize_card_v3 makes of it.
C13_LayoutInvariant ==
    dpc = "hashed" =>
       /\ (HashNormalizes(doc) /\ HashNormalizes(doc2)
             /\ SameValue(dres.n1, dres.n2)) => dres.h1 = dres.h2
       /\ HashNormalizes(doc) => dres.h1 = Dumps(deterministic_sort(dres.n1))

\* C13 witness: a legacy document with a name and a creator comment has the
\* fingerprint of its normalised form written in another key order
C13_Witness ==
    /\ dpc = "hashed"
    /\ Legacy(doc) /\ HasKey(doc.v, "name") /\ HasKey(doc.v, "creatorcomment")
    /\ HasKey(doc2.v, "data") /\ ~Identical(doc2, dres.n1)
    /\ SameValue(doc2, dres.n1)
    /\ dres.h1 = dres.h2 /\ dres.h1 # <<>>

----------------------------------------------------------------------------
(* Properties of _check_condition *)

\* the value is neither null, nor "", nor []
Present(value) ==
    /\ value # VNull
    /\ value # VStr(<<>>)
    /\ value # VList(<<>>)

\* C15: for every value exactly one of `exists` and `not_exists` is true,
\* and `exists` is true exactly when the value is not null, not the empty
\* string and not the empty sequence.
C15_ExistsComplement ==
    cout.done =>
       /\ CheckCondition(cin.value, OP_EXISTS, cin.target, cin.case_sensitive)
            # CheckCondition(cin.value, OP_NOT_EXISTS, cin.target,
                             cin.case_sensitive)
       /\ cin.operator = OP_EXISTS => (cout.res <=> Present(cin.value))
       /\ cin.operator = OP_NOT_EXISTS => (cout.res <=> ~Present(cin.value))

\* C15 witness: not_exists was applied to the empty sequence and is true
C15_Witness ==
    /\ cout.done /\ cin.operator = OP_NOT_EXISTS
    /\ cin.value = VList(<<>>) /\ cout.res

\* the two sequences hold the same elements the same number of times
SameMultiset(a, b) ==
    /\ \A i \in 1..Len(a) : Count(a[i], a) = Count(a[i], b)
    /\ \A i \in 1..Len(b) : Count(b[i], a) = Count(b[i], b)

\* the lower-cased items of the comma-split target
TargetItems(t) == [i \in 1..Len(Split(t)) |-> Lower(Strip(Split(t)[i]))]

\* C16: for a sequence value, `eq` is true exactly when the lower-cased
\* elements of the value and the lower-cased items of the comma-split
\* target are the same multiset, whatever case_sensitive is and also for a
\* target without a comma.
C16_SequenceEq ==
    (cout.done /\ cin.operator = OP_EQ /\ cin.value.t = "list"
       /\ cin.target.t = "str")
    => (cout.res <=>
          SameMultiset([i \in 1..Len(cin.value.l) |-> Lower(cin.value.l[i])],
                       TargetItems(cin.target.s)))

----------------------------------------------------------------------------
(* Properties of the error handling of evaluate *)

\* C17: an error raised for one condition makes only that condition false
\* and evaluate never fails: the rule loop never ends with an exception.
C17_ErrorsContained == ~(epc = "raised" /\ visited # <<>>)

\* the field names a condition can carry
FieldNames ==
    {<<"wi_name">>, <<"wi_content">>, <<"regex_name">>, <<"regex_content">>,
     <<"st_script_name">>, <<"st_script_content">>, <<"char_name">>,
     <<"tags">>}

\* C18: for every card document and every field name the field resolver
\* returns (null or a sequence) and never fails, and neither does the
\* world-info precomputation at the start of evaluate.
C18_ResolverNeverFails ==
    /\ ~(epc = "raised" /\ visited = <<>>)
    /\ epc = "loop" =>
          \A f \in FieldNames : ~GetFieldValue(card, FIELD_MAP(f), f).raised

----------------------------------------------------------------------------
(* Properties of RuleManager.save_ruleset *)

\* the last call was save_ruleset without an old id, and the slug of the
\* name was in use
NewSaveOnUsedSlug ==
    /\ mlast.op = "save"
    /\ ~Given(mlast.old)
    /\ Exists(mlast.before, sanitize_filename(GetOr(mlast.name, Untitled)),
              caseFold)

\* C19: saving a new ruleset whose slug is in use stores it under the first
\* free id <slug>_<n>, n = 1, 2, ..., returns that id and leaves every
\* ruleset stored before as it was; no two stored rulesets share an id.
C19_FirstFreeSuffix ==
    /\ NewSaveOnUsedSlug =>
          LET slug == sanitize_filename(GetOr(mlast.name, Untitled))
          IN /\ \E n \in 1..(Cardinality(mlast.before) + 1) :
                   /\ mlast.ret = Suffixed(slug, n)
                   /\ ~Exists(mlast.before, mlast.ret, caseFold)
                   /\ \A k \in 1..(n - 1) :
                         Exists(mlast.before, Suffixed(slug, k), caseFold)
             /\ [id |-> mlast.ret, name |-> mlast.name, body |-> mlast.body]
                   \in files
             /\ mlast.before \subseteq files
    /\ \A f, g \in files :
          (IF caseFold THEN Lower(f.id) = Lower(g.id) ELSE f.id = g.id)
             => f = g

\* C19 witness: a and a_1 were stored and a new ruleset named a was saved
\* as a_2
C19_Witness ==
    /\ NewSaveOnUsedSlug
    /\ mlast.ret = <<"a", "_", "2">>
    /\ {<<"a">>, <<"a", "_", "1">>} \subseteq Ids(mlast.before)
    /\ Cardinality(files) = Cardinality(mlast.before) + 1

\* C20: when save_ruleset(old_id, data) returns an id other than old_id and
\* the active pointer was old_id, the pointer is the returned id afterwards;
\* in every other case the pointer is what it was.
C20_PointerFollowsRename ==
    mlast.op = "save" =>
       IF Given(mlast.old) /\ mlast.ret # mlast.old.v
             /\ mlast.ptr = Some(mlast.old.v)
       THEN active_ruleset = Some(mlast.ret)
       ELSE active_ruleset = mlast.ptr

\* C20 witness: the active ruleset was renamed and the pointer followed
C20_Witness ==
    /\ mlast.op = "save" /\ Given(mlast.old)
    /\ mlast.ret # mlast.old.v
    /\ mlast.ptr = Some(mlast.old.v)
    /\ active_ruleset = Some(mlast.ret)
    /\ mlast.ret \in Ids(files)

----------------------------------------------------------------------------
(* Properties of the inputs of evaluate *)

\* C21: evaluate is side-effect-free over its inputs: when it has returned,
\* the card document is equal to the one it was called with.
C21_InputsUnchanged == epc = "returned" => card = card0

----------------------------------------------------------------------------
(* Properties of a move to the current folder *)

\* the folder a card id lies in
FolderOf(id) == SubSeq(id, 1, Len(id) - 1)

\* the plan moves the card to the folder it is in
MoveToCurrentFolder ==
    /\ ExecDone
    /\ xin.plan.move.has
    /\ xin.plan.move.v = FolderOf(xin.card_id)

\* the card as the move call found it
StoreBeforeMove ==
    IF Len(calls) > 1 THEN calls[Len(calls) - 1].after ELSE store0

----------------------------------------------------------------------------
(* Properties of the canonical form *)

\* the data node of a dict document; no fields when it is not a dict
DataOf(x) ==
    IF HasKey(x.v, "data") /\ ValAt(x.v, "data").t = "dict"
    THEN ValAt(x.v, "data").v ELSE <<>>

\* the non-null values the root-level field or its legacy-named equivalent
\* holds
RootValues(x, field) ==
    {ValAt(x.v, k) : k \in {j \in {field, RootKey(field)} : HasKey(x.v, j)}}
       \ {JNull}

\* normalize_card_v3 has been applied to a dict document
Canonicalized == dpc = "normalized" /\ doc.t = "dict"

\* C23: for every core field canonicalize leaves a value that data holds
\* untouched, and when data lacks the field and the root-level field or its
\* legacy-named equivalent has a non-null value, data holds that value
\* afterwards.
C23_CoreFieldsSynced ==
    Canonicalized =>
       \A i \in 1..Len(core_fields) :
          LET f == core_fields[i]
          IN IF HasKey(DataOf(doc), f)
             THEN /\ HasKey(DataOf(dres.n1), f)
                  /\ Identical(ValAt(DataOf(dres.n1), f), ValAt(DataOf(doc), f))
             ELSE RootValues(doc, f) # {} =>
                     /\ HasKey(DataOf(dres.n1), f)
                     /\ ValAt(DataOf(dres.n1), f) \in RootValues(doc, f)

----------------------------------------------------------------------------
\* C25: the defaults of the rule structure.  A rule without `logic` combines
\* its groups with OR; a group without `logic` combines its conditions with
\* AND; a rule that has only the legacy flat `conditions` matches exactly
\* when all of them are true, whatever the rule's logic is.

\* the rules evaluate has decided: passed in the loop, or matched
Decided(k) == k < ei \/ \E j \in 1..Len(matched) : matched[j] = k

IsMatched(k) == \E j \in 1..Len(matched) : matched[j] = k

AllCondsTrue(conds) == \A i \in 1..Len(conds) : CondResult(card, conds[i])

\* every group has conditions and no logic of its own
PlainGroups(gs) ==
    \A g \in 1..Len(gs) : ~gs[g].logic.has /\ ~NoConditions(gs[g])

C25_Defaults ==
    \A k \in 1..Len(Rules) :
       LET rule == Rules[k]
           gs   == GetOr(rule.groups, <<>>)
           cs   == GetOr(rule.conditions, <<>>)
       IN (epc \in {"loop", "returned"} /\ Decided(k) /\ Enabled(rule)) =>
          /\ (gs # <<>> /\ ~rule.logic.has) =>
                (IsMatched(k) <=> \E g \in 1..Len(gs) : GroupMatch(card, gs[g]))
          /\ (gs # <<>> /\ PlainGroups(gs)) =>
                (IsMatched(k) <=>
                   IF Upper(GetOr(rule.logic, <<"O", "R">>)) = <<"A", "N", "D">>
                   THEN \A g \in 1..Len(gs) :
                           AllCondsTrue(GetOr(gs[g].conditions, <<>>))
                   ELSE \E g \in 1..Len(gs) :
                           AllCondsTrue(GetOr(gs[g].conditions, <<>>)))
          /\ (gs = <<>> /\ cs # <<>>) => (IsMatched(k) <=> AllCondsTrue(cs))

\* a rule without logic whose first group (no logic, one true and one false
\* condition) fails and whose second group holds has matched
C25_Witness ==
    /\ epc = "returned" /\ Len(Rules) = 1 /\ matched = <<1>>
    /\ ~Rules[1].logic.has
    /\ LET gs == GetOr(Rules[1].groups, <<>>)
       IN /\ Len(gs) = 2 /\ PlainGroups(gs)
          /\ Len(gs[1].conditions.v) = 2
          /\ \E i \in 1..2 : CondResult(card, gs[1].conditions.v[i])
          /\ ~AllCondsTrue(gs[1].conditions.v)
          /\ AllCondsTrue(gs[2].conditions.v)

----------------------------------------------------------------------------
\* C26: for every operator other than exists and not_exists (eq, neq,
\* contains, not_contains, regex, gt, lt, is_true, is_false and any unknown
\* operator) a null field value makes the condition false.
C26_NullIsFalse ==
    (cout.done /\ cin.value = VNull /\
     cin.operator \notin {OP_EXISTS, OP_NOT_EXISTS}) => ~cout.res

\* a null value has been checked with neq against a null target
C26_Witness ==
    /\ cout.done /\ ~cout.res /\ cin.value = VNull
    /\ cin.operator = OP_NEQ /\ cin.target = VNull

----------------------------------------------------------------------------
\* C27: two thumbnail requests for distinct source images never resolve to
\* the same cache entry, so the thumbnail a request is answered with was
\* generated from the request's own source image; for image requests and for
\* card JSON requests resolved to a sidecar image in any folder.

\* the request has found its source image and computed its cache file name
Resolved(r) ==
    \/ tpc[r] \in {"wait", "recheck", "gen", "save"}
    \/ tpc[r] = "done" /\ tout[r].via \in {"check", "recheck", "generated", "failed"}

C27_DistinctEntries ==
    /\ \A r1, r2 \in Requests :
          (Resolved(r1) /\ Resolved(r2) /\
           ImageOf(treq[r1]) # ImageOf(treq[r2])) =>
              ThumbKey(treq[r1]) # ThumbKey(treq[r2])
    /\ \A r \in Requests :
          (tpc[r] = "done" /\ tout[r].status = "thumb" /\
           tout[r].via \in {"check", "recheck"}) =>
              thumb[ThumbKey(treq[r])].of = ImageOf(treq[r])

----------------------------------------------------------------------------
\* C28: every request that acquires a generation permit releases it on every
\* path (hit at the re-check, successful generation, failure during
\* generation), so when no request is in progress all 4 permits are free,
\* and under fair scheduling every blocked request eventually acquires a
\* permit and completes.  A request leaves the wait only by acquiring a
\* permit, gives the permit up only by completing and stays completed, so
\* the progress of every request is: from some point on no request waits or
\* holds a permit.

HoldsPermit(r) == tpc[r] \in {"recheck", "gen", "save"}

C28_PermitsReleased ==
    /\ [][\A r \in Requests :
             /\ (HoldsPermit(r) /\ tpc'[r] = "done") => permits' = permits + 1
             /\ (tpc[r] = "wait" /\ tpc'[r] # "wait") => HoldsPermit(r)'
             /\ (HoldsPermit(r) /\ ~HoldsPermit(r)') => tpc'[r] = "done"
             /\ (tpc[r] = "done") => tpc'[r] = "done"]_vars
    /\ []((\A r \in Requests : ~HoldsPermit(r)) => permits = 4)
    /\ <>[](\A r \in Requests : tpc[r] # "wait" /\ ~HoldsPermit(r))

\* C28 witness: five requests went through the semaphore of four permits
\* and left it on each of the three paths; all permits are free again
C28_Witness ==
    /\ \A r \in Requests :
          tpc[r] = "done" /\ tout[r].via \in {"recheck", "generated", "failed"}
    /\ \A via \in {"recheck", "generated", "failed"} :
          \E r \in Requests : tout[r].via = via
    /\ permits = 4

----------------------------------------------------------------------------
\* C29: saving a stored ruleset under its unchanged display name keeps its
\* id, also when the id carries a collision suffix such as <slug>_1:
\* save_ruleset(id, data) returns the same id and leaves exactly one stored
\* record for it.
SavedUnderSameName ==
    /\ mlast.op = "save" /\ Given(mlast.old)
    /\ \E f \in mlast.before : f.id = mlast.old.v /\ f.name = mlast.name

C29_SameNameKeepsId ==
    SavedUnderSameName =>
       /\ mlast.ret = mlast.old.v
       /\ Cardinality({f \in files : f.id = mlast.old.v}) = 1

\* C30: after any sequence of save_ruleset and delete_ruleset calls the
\* active-ruleset pointer is unset or names a stored ruleset.
C30_PointerNamesStored ==
    active_ruleset = NoId \/ Exists(files, active_ruleset.v, caseFold)

====
